---- MODULE Spec2Model ----
(***************************************************************************)
(* A model of the ECS core of misk_ECS: the World (entity registry on a    *)
(* SlotMap, type-erased component storages, per-entity component masks)    *)
(* and the SystemDispatcher.  Operations are written as operators on a     *)
(* world value, following src/ecs/src/world.rs statement by statement;     *)
(* the actions apply them to the state.                                    *)
(***************************************************************************)
EXTENDS Integers, Sequences, FiniteSets, TLC

\* Bound: the number of create_entity calls explored.
MaxCreates == 2

\* Bound: the number of system objects handed to the dispatcher.
MaxSystems == 3

\* Bound: the number of MovementSystem runs.
MaxTicks == 2

\* Bound: the simulated time, in halves, the DebugSystem is run for.
MaxClock == 12

\* Bound: the number of SimWorld steps entered.
MaxSimSteps == 7

\* Bound: the number of calls of SimWorld::populate_with_test_entities.
MaxPopulates == 1

\* The component types (TypeId values) and component values explored.
Types == {"Position", "Velocity"}
Values == {"v1", "v2"}

----------------------------------------------------------------------------
(* Option, Result and the error taxonomy (src/ecs/src/lib.rs).             *)

None == [some |-> FALSE]
Some(v) == [some |-> TRUE, val |-> v]
Unit == [unit |-> TRUE]
Ok(v) == [ok |-> TRUE, val |-> v]
Err(e) == [ok |-> FALSE, err |-> e]
EntityNotFound(entity) == [kind |-> "EntityNotFound", entity |-> entity]
ComponentNotRegistered(name) == [kind |-> "ComponentNotRegistered", name |-> name]
SystemError(msg) == [kind |-> "SystemError", msg |-> msg]

\* HashMap helpers: a map is a function whose domain is its key set.
EmptyMap == [x \in {} |-> x]
MapInsert(m, k, v) == [x \in (DOMAIN m) \cup {k} |-> IF x = k THEN v ELSE m[x]]
MapRemove(m, k) == [x \in (DOMAIN m) \ {k} |-> m[x]]
MapGet(m, k) == IF k \in DOMAIN m THEN Some(m[k]) ELSE None

\* Vec helpers.
Contains(s, x) == \E i \in 1..Len(s) : s[i] = x
\* s.retain(|&t| t != x)
Retain(s, x) == SelectSeq(s, LAMBDA t : t # x)
SeqToSet(s) == {s[i] : i \in 1..Len(s)}

RECURSIVE SetToSeq(_)
\* Some enumeration of a finite set, each element once (a HashMap's
\* iteration order is unspecified; CHOOSE fixes one).
SetToSeq(S) ==
    IF S = {} THEN <<>>
    ELSE LET x == CHOOSE y \in S : TRUE IN <<x>> \o SetToSeq(S \ {x})

----------------------------------------------------------------------------
(* Entity (src/ecs/src/entity.rs) and the SlotMap<EntityId, Entity> the    *)
(* World keeps.  A key is (idx, version); a slot is occupied exactly when  *)
(* its version is odd; slot 0 is the sentinel; the free list is a stack    *)
(* threaded through the vacant slots.                                      *)

Key(i, v) == [idx |-> i, version |-> v]
Entity_new(id) == [id |-> id]
Entity_id(entity) == entity.id

\* version | 1
Or1(v) == IF v % 2 = 0 THEN v + 1 ELSE v

SlotMap_new ==
    [slots |-> (0 :> [version |-> 0, u |-> [next_free |-> 0]]),
     free_head |-> 1,
     num_elems |-> 0]

SlotMap_contains_key(sm, k) ==
    k.idx \in DOMAIN sm.slots /\ sm.slots[k.idx].version = k.version

\* insert_with_key(|id| Entity::new(id)): the value stored is the Entity of
\* the key.  Returns the map after the insertion, and the key.
SlotMap_insert_with_key(sm) ==
    IF sm.free_head \in DOMAIN sm.slots
    THEN LET slot == sm.slots[sm.free_head]
             occupied_version == Or1(slot.version)
             k == Key(sm.free_head, occupied_version)
         IN  [sm |-> [slots |-> [sm.slots EXCEPT ![sm.free_head] =
                                    [version |-> occupied_version,
                                     u |-> [value |-> Entity_new(k)]]],
                      free_head |-> slot.u.next_free,
                      num_elems |-> sm.num_elems + 1],
              key |-> k]
    ELSE LET n == Cardinality(DOMAIN sm.slots)
             k == Key(n, 1)
         IN  [sm |-> [slots |-> sm.slots @@
                                    (n :> [version |-> 1, u |-> [value |-> Entity_new(k)]]),
                      free_head |-> n + 1,
                      num_elems |-> sm.num_elems + 1],
              key |-> k]

\* The version is a u32 advanced with wrapping_add(1); the versions explored
\* stay below 2 * MaxCreates, far from the wrap.
SlotMap_remove(sm, k) ==
    IF SlotMap_contains_key(sm, k)
    THEN [slots |-> [sm.slots EXCEPT ![k.idx] =
                        [version |-> sm.slots[k.idx].version + 1,
                         u |-> [next_free |-> sm.free_head]]],
          free_head |-> k.idx,
          num_elems |-> sm.num_elems - 1]
    ELSE sm

SlotMap_len(sm) == sm.num_elems

RECURSIVE SlotMap_values_from(_, _)
SlotMap_values_from(sm, i) ==
    IF i \notin DOMAIN sm.slots THEN <<>>
    ELSE (IF sm.slots[i].version % 2 = 1 THEN <<sm.slots[i].u.value>> ELSE <<>>)
         \o SlotMap_values_from(sm, i + 1)

\* The values of the occupied slots, in slot order.
SlotMap_values(sm) == SlotMap_values_from(sm, 0)

----------------------------------------------------------------------------
(* TypedComponentStorage<T> behind Box<dyn ComponentStorage>               *)
(* (src/ecs/src/lib.rs).  elem is the concrete element type of the boxed   *)
(* storage, which a downcast compares with the type asked for.             *)

\* new that builds the storage of one fixed component type.
TypedComponentStorage_new_fixed(T) == [elem |-> "Position", components |-> EmptyMap]

TypedComponentStorage_new(T) == [elem |-> T, components |-> EmptyMap]
\* insert that keeps a value already there (entry().or_insert()).
TypedComponentStorage_insert_keeps(s, entity, component) ==
    IF entity \in DOMAIN s.components THEN s
    ELSE [s EXCEPT !.components = MapInsert(@, entity, component)]

TypedComponentStorage_insert(s, entity, component) ==
    [s EXCEPT !.components = MapInsert(@, entity, component)]
TypedComponentStorage_get(s, entity) == MapGet(s.components, entity)
\* The value the &mut T refers to.
TypedComponentStorage_get_mut(s, entity) == MapGet(s.components, entity)
TypedComponentStorage_remove(s, entity) ==
    [storage |-> [s EXCEPT !.components = MapRemove(@, entity)],
     ret |-> MapGet(s.components, entity)]
\* The trait's remove: the same removal, reporting only whether a value was there.
ComponentStorage_remove(s, entity) ==
    [storage |-> [s EXCEPT !.components = MapRemove(@, entity)],
     ret |-> MapGet(s.components, entity).some]
\* as_any().downcast_ref::<TypedComponentStorage<T>>()
Downcast(s, T) == IF s.elem = T THEN Some(s) ELSE None

----------------------------------------------------------------------------
(* World (src/ecs/src/world.rs).  A mutating operation returns the world   *)
(* it leaves and the value it returns.                                     *)

World_new ==
    [entities |-> SlotMap_new,
     component_storages |-> EmptyMap,
     entity_component_masks |-> EmptyMap]

\* create_entity that starts the masks afresh.
create_entity_fresh_masks(w) ==
    LET r == SlotMap_insert_with_key(w.entities)
        id == r.key
    IN  [world |-> [entities |-> r.sm,
                    component_storages |-> w.component_storages,
                    entity_component_masks |-> MapInsert(EmptyMap, id, <<>>)],
         ret |-> Entity_new(id)]

\* create_entity without the mask entry.
create_entity_no_mask(w) ==
    LET r == SlotMap_insert_with_key(w.entities)
        id == r.key
    IN  [world |-> [entities |-> r.sm,
                    component_storages |-> w.component_storages,
                    entity_component_masks |-> w.entity_component_masks],
         ret |-> Entity_new(id)]

create_entity(w) ==
    LET r == SlotMap_insert_with_key(w.entities)
        id == r.key
    IN  [world |-> [entities |-> r.sm,
                    component_storages |-> w.component_storages,
                    entity_component_masks |->
                        MapInsert(w.entity_component_masks, id, <<>>)],
         ret |-> Entity_new(id)]

entity_exists(w, entity) == SlotMap_contains_key(w.entities, Entity_id(entity))

\* remove_entity without the loop over the storages.
remove_entity_no_purge(w, entity) ==
    LET id == Entity_id(entity) IN
    IF ~SlotMap_contains_key(w.entities, id)
    THEN [world |-> w, ret |-> Err(EntityNotFound(entity))]
    ELSE [world |->
            [entities |-> SlotMap_remove(w.entities, id),
             component_storages |-> w.component_storages,
             entity_component_masks |-> MapRemove(w.entity_component_masks, id)],
          ret |-> Ok(Unit)]

\* remove_entity without the existence check.
remove_entity_unchecked(w, entity) ==
    LET id == Entity_id(entity) IN
    [world |->
        [entities |-> SlotMap_remove(w.entities, id),
         component_storages |->
            [T \in DOMAIN w.component_storages |->
                ComponentStorage_remove(w.component_storages[T], id).storage],
         entity_component_masks |-> MapRemove(w.entity_component_masks, id)],
     ret |-> Ok(Unit)]

\* remove_entity that leaves the entity's mask behind.
remove_entity_keeps_mask(w, entity) ==
    LET id == Entity_id(entity) IN
    IF ~SlotMap_contains_key(w.entities, id)
    THEN [world |-> w, ret |-> Err(EntityNotFound(entity))]
    ELSE [world |->
            [entities |-> SlotMap_remove(w.entities, id),
             component_storages |->
                [T \in DOMAIN w.component_storages |->
                    ComponentStorage_remove(w.component_storages[T], id).storage],
             entity_component_masks |-> w.entity_component_masks],
          ret |-> Ok(Unit)]

remove_entity(w, entity) ==
    LET id == Entity_id(entity) IN
    IF ~SlotMap_contains_key(w.entities, id)
    THEN [world |-> w, ret |-> Err(EntityNotFound(entity))]
    ELSE [world |->
            [entities |-> SlotMap_remove(w.entities, id),
             component_storages |->
                [T \in DOMAIN w.component_storages |->
                    ComponentStorage_remove(w.component_storages[T], id).storage],
             entity_component_masks |-> MapRemove(w.entity_component_masks, id)],
          ret |-> Ok(Unit)]

\* register_component without the contains_key check.
register_component_always_new(w, T) ==
    [w EXCEPT !.component_storages =
        MapInsert(@, T, TypedComponentStorage_new(T))]

register_component(w, T) ==
    IF T \notin DOMAIN w.component_storages
    THEN [w EXCEPT !.component_storages =
                MapInsert(@, T, TypedComponentStorage_new(T))]
    ELSE w

\* add_component that registers the type before it checks the entity.
add_component_registers_first(w, entity, T, component) ==
    LET id == Entity_id(entity)
        w1 == register_component(w, T)
    IN
    IF ~SlotMap_contains_key(w1.entities, id)
    THEN [world |-> w1, ret |-> Err(EntityNotFound(entity))]
    ELSE
    LET w2 == [w1 EXCEPT !.component_storages[T] =
                    TypedComponentStorage_insert(w1.component_storages[T], id, component)]
        masks == w2.entity_component_masks
        w3 == IF id \in DOMAIN masks /\ ~Contains(masks[id], T)
              THEN [w2 EXCEPT !.entity_component_masks[id] = Append(@, T)]
              ELSE w2
    IN  [world |-> w3, ret |-> Ok(Unit)]

\* add_component that pushes the tag without looking for it in the mask.
add_component_always_pushes(w, entity, T, component) ==
    LET id == Entity_id(entity) IN
    IF ~SlotMap_contains_key(w.entities, id)
    THEN [world |-> w, ret |-> Err(EntityNotFound(entity))]
    ELSE
    LET w1 == register_component(w, T)
        w2 == [w1 EXCEPT !.component_storages[T] =
                    TypedComponentStorage_insert(w1.component_storages[T], id, component)]
        masks == w2.entity_component_masks
        w3 == IF id \in DOMAIN masks
              THEN [w2 EXCEPT !.entity_component_masks[id] = Append(@, T)]
              ELSE w2
    IN  [world |-> w3, ret |-> Ok(Unit)]

add_component(w, entity, T, component) ==
    LET id == Entity_id(entity) IN
    IF ~SlotMap_contains_key(w.entities, id)
    THEN [world |-> w, ret |-> Err(EntityNotFound(entity))]
    ELSE
    LET w1 == register_component(w, T)
        storage == MapGet(w1.component_storages, T)
    IN
    IF ~storage.some
    THEN [world |-> w1, ret |-> Err(ComponentNotRegistered(T))]
    ELSE
    LET typed_storage == Downcast(storage.val, T) IN
    IF ~typed_storage.some
    THEN [world |-> w1, ret |-> Err(ComponentNotRegistered(T))]
    ELSE
    LET w2 == [w1 EXCEPT !.component_storages[T] =
                    TypedComponentStorage_insert(typed_storage.val, id, component)]
        masks == w2.entity_component_masks
        w3 == IF id \in DOMAIN masks /\ ~Contains(masks[id], T)
              THEN [w2 EXCEPT !.entity_component_masks[id] = Append(@, T)]
              ELSE w2
    IN  [world |-> w3, ret |-> Ok(Unit)]

get_component(w, T, entity) ==
    LET id == Entity_id(entity)
        storage == MapGet(w.component_storages, T)
    IN
    IF ~storage.some THEN None
    ELSE
    LET typed_storage == Downcast(storage.val, T) IN
    IF ~typed_storage.some THEN None
    ELSE TypedComponentStorage_get(typed_storage.val, id)

\* The value the returned &mut T refers to, if any.
get_component_mut(w, T, entity) ==
    LET id == Entity_id(entity)
        storage == MapGet(w.component_storages, T)
    IN
    IF ~storage.some THEN None
    ELSE
    LET typed_storage == Downcast(storage.val, T) IN
    IF ~typed_storage.some THEN None
    ELSE TypedComponentStorage_get_mut(typed_storage.val, id)

\* if let Some(c) = world.get_component_mut::<T>(entity) { *c = component }
get_component_mut_write(w, T, entity, component) ==
    IF ~get_component_mut(w, T, entity).some THEN w
    ELSE [w EXCEPT !.component_storages[T].components[Entity_id(entity)] = component]

\* remove_component that empties the mask (clear() for retain()).
remove_component_clears_mask(w, entity, T) ==
    LET id == Entity_id(entity) IN
    IF ~SlotMap_contains_key(w.entities, id)
    THEN [world |-> w, ret |-> Err(EntityNotFound(entity))]
    ELSE
    LET storage == MapGet(w.component_storages, T) IN
    IF ~storage.some
    THEN [world |-> w, ret |-> Err(ComponentNotRegistered(T))]
    ELSE
    LET r == TypedComponentStorage_remove(storage.val, id)
        w1 == [w EXCEPT !.component_storages[T] = r.storage]
    IN  [world |-> [w1 EXCEPT !.entity_component_masks[id] = <<>>],
         ret |-> Ok(r.ret)]

\* remove_component that leaves the mask as it is.
remove_component_keeps_mask(w, entity, T) ==
    LET id == Entity_id(entity) IN
    IF ~SlotMap_contains_key(w.entities, id)
    THEN [world |-> w, ret |-> Err(EntityNotFound(entity))]
    ELSE
    LET storage == MapGet(w.component_storages, T) IN
    IF ~storage.some
    THEN [world |-> w, ret |-> Err(ComponentNotRegistered(T))]
    ELSE
    LET r == TypedComponentStorage_remove(storage.val, id) IN
    [world |-> [w EXCEPT !.component_storages[T] = r.storage], ret |-> Ok(r.ret)]

remove_component(w, entity, T) ==
    LET id == Entity_id(entity) IN
    IF ~SlotMap_contains_key(w.entities, id)
    THEN [world |-> w, ret |-> Err(EntityNotFound(entity))]
    ELSE
    LET storage == MapGet(w.component_storages, T) IN
    IF ~storage.some
    THEN [world |-> w, ret |-> Err(ComponentNotRegistered(T))]
    ELSE
    LET typed_storage == Downcast(storage.val, T) IN
    IF ~typed_storage.some
    THEN [world |-> w, ret |-> Err(ComponentNotRegistered(T))]
    ELSE
    LET r == TypedComponentStorage_remove(typed_storage.val, id)
        w1 == [w EXCEPT !.component_storages[T] = r.storage]
        masks == w1.entity_component_masks
        w2 == IF id \in DOMAIN masks
              THEN [w1 EXCEPT !.entity_component_masks[id] =
                        Retain(@, T)]
              ELSE w1
    IN  [world |-> w2, ret |-> Ok(r.ret)]

\* has_component that asks whether the mask holds anything at all.
has_component_any_type(w, T, entity) ==
    LET mask == MapGet(w.entity_component_masks, Entity_id(entity)) IN
    IF mask.some THEN Len(mask.val) > 0 ELSE FALSE

\* has_component with unwrap_or(true).
has_component_default_true(w, T, entity) ==
    LET mask == MapGet(w.entity_component_masks, Entity_id(entity)) IN
    IF mask.some THEN Contains(mask.val, T) ELSE TRUE

has_component(w, T, entity) ==
    LET mask == MapGet(w.entity_component_masks, Entity_id(entity)) IN
    IF mask.some THEN Contains(mask.val, T) ELSE FALSE

\* query_entities with any() where the code has all().
query_entities_any(w, component_types) ==
    LET masks == w.entity_component_masks
        matching == {id \in DOMAIN masks :
                        \E i \in 1..Len(component_types) :
                            Contains(masks[id], component_types[i])}
        ids == SetToSeq(matching)
    IN  [i \in 1..Len(ids) |-> Entity_new(ids[i])]

\* query_entities that passes over the entities with an empty mask.
query_entities_skips_empty(w, component_types) ==
    LET masks == w.entity_component_masks
        matching == {id \in DOMAIN masks :
                        /\ masks[id] # <<>>
                        /\ \A i \in 1..Len(component_types) :
                              Contains(masks[id], component_types[i])}
        ids == SetToSeq(matching)
    IN  [i \in 1..Len(ids) |-> Entity_new(ids[i])]

\* component_types is the slice of TypeIds asked for; the result is a Vec.
query_entities(w, component_types) ==
    LET masks == w.entity_component_masks
        matching == {id \in DOMAIN masks :
                        \A i \in 1..Len(component_types) :
                            Contains(masks[id], component_types[i])}
        ids == SetToSeq(matching)
    IN  [i \in 1..Len(ids) |-> Entity_new(ids[i])]

entities(w) == SlotMap_values(w.entities)

\* What the returned &TypedComponentStorage<T> refers to, if any.
get_component_storage(w, T) ==
    LET storage == MapGet(w.component_storages, T) IN
    IF ~storage.some THEN None ELSE Downcast(storage.val, T)

\* What the returned &mut TypedComponentStorage<T> refers to, if any.
get_component_storage_mut(w, T) ==
    LET storage == MapGet(w.component_storages, T) IN
    IF ~storage.some THEN None ELSE Downcast(storage.val, T)

\* The world after the storage behind the &mut handle has become s.
StorageHandleWrite(w, T, s) == [w EXCEPT !.component_storages[T] = s]

\* entity_count as the number of slots ever taken.
entity_count_slots(w) == Cardinality(DOMAIN w.entities.slots) - 1

entity_count(w) == SlotMap_len(w.entities)

-----------------------------------------------------------------------------
(* f32.  A value is written m * 2^e with integers m and e: 0 as (0, 0),  *)
(* any other value with 2^23 <= |m| < 2^24, so that equal values are equal *)
(* records.  Every operation rounds its exact result to the nearest value  *)
(* of that form, ties to the even significand.  The exponent is not        *)
(* bounded: the values explored stay far from the ends of the f32 range,   *)
(* and no infinity, NaN or subnormal comes up.                             *)

RECURSIVE F32Ulp(_)
\* The distance between neighbouring f32 values at magnitude m.
F32Ulp(m) == IF m < 2^24 THEN 1 ELSE 2 * F32Ulp(m \div 2)

\* The f32 nearest to n, ties to even.
F32Round(n) ==
    LET m == IF n < 0 THEN -n ELSE n
        q == F32Ulp(m)
        lo == (m \div q) * q
        r == m - lo
        nearest == IF 2 * r < q THEN lo
                   ELSE IF 2 * r > q THEN lo + q
                   ELSE IF (lo \div q) % 2 = 0 THEN lo ELSE lo + q
    IN IF n < 0 THEN -nearest ELSE nearest

RECURSIVE F32Canon(_, _)
\* The one way n * 2^e is written: 0 as (0, 0), any other value with
\* 2^23 <= |m| < 2^24.  n has at most 24 significant bits.
F32Canon(n, e) ==
    IF n = 0 THEN [m |-> 0, e |-> 0]
    ELSE IF n >= 2^24 \/ -n >= 2^24 THEN F32Canon(n \div 2, e + 1)
    ELSE IF n < 2^23 /\ -n < 2^23 THEN F32Canon(n * 2, e - 1)
    ELSE [m |-> n, e |-> e]

\* The f32 nearest to n * 2^e.
F32Of(n, e) == F32Canon(F32Round(n), e)

F32Abs(n) == IF n < 0 THEN -n ELSE n
F32Sign(n) == IF n < 0 THEN -1 ELSE 1

\* |n| / 2^k with the bits shifted out remembered in the lowest bit.
F32ShiftRightJam(n, k) ==
    IF k >= 25 THEN F32Sign(n)
    ELSE LET q == F32Abs(n) \div 2^k
             r == F32Abs(n) % 2^k
         IN F32Sign(n) * (IF r # 0 /\ q % 2 = 0 THEN q + 1 ELSE q)

\* a + b before it is rounded, as n * 2^e; inexact tells that bits of the
\* smaller operand were shifted out.
F32AddWide(a, b) ==
    LET hi == IF a.e >= b.e THEN a ELSE b
        lo == IF a.e >= b.e THEN b ELSE a
        d == hi.e - lo.e
    IN IF d <= 3
       THEN [n |-> hi.m * 8 + lo.m * 2^(3 - d), e |-> hi.e - 3, inexact |-> FALSE]
       ELSE [n |-> hi.m * 8 + F32ShiftRightJam(lo.m, d - 3), e |-> hi.e - 3,
             inexact |-> d - 3 >= 25 \/ F32Abs(lo.m) % 2^(d - 3) # 0]

\* a + b in f32.
F32Add(a, b) ==
    IF a.m = 0 THEN b
    ELSE IF b.m = 0 THEN a
    ELSE LET wide == F32AddWide(a, b) IN F32Of(wide.n, wide.e)

\* a * b before it is rounded, as n * 2^e: the 48-bit product of the
\* significands, computed in 12-bit halves, cut to its upper 28 bits.
F32MulWide(a, b) ==
    LET ma == F32Abs(a.m)
        mb == F32Abs(b.m)
        a1 == ma \div 4096
        a0 == ma % 4096
        b1 == mb \div 4096
        b0 == mb % 4096
        mid == a1 * b0 + a0 * b1
        low == (mid % 4096) * 4096 + a0 * b0
        hi == a1 * b1 + mid \div 4096 + low \div 2^24
        lo == low % 2^24
        q == hi * 16 + lo \div 2^20
        r == lo % 2^20
    IN [n |-> F32Sign(a.m) * F32Sign(b.m) * (IF r # 0 /\ q % 2 = 0 THEN q + 1 ELSE q),
        e |-> a.e + b.e + 20, inexact |-> r # 0]

\* a * b in f32.
F32Mul(a, b) ==
    IF a.m = 0 \/ b.m = 0 THEN [m |-> 0, e |-> 0]
    ELSE LET wide == F32MulWide(a, b) IN F32Of(wide.n, wide.e)

RECURSIVE F32LongDiv(_, _, _, _)
\* k more bits of the quotient q of the long division by d, r the remainder.
F32LongDiv(q, r, d, k) ==
    IF k = 0 THEN [q |-> q, r |-> r]
    ELSE IF 2 * r >= d THEN F32LongDiv(2 * q + 1, 2 * r - d, d, k - 1)
    ELSE F32LongDiv(2 * q, 2 * r, d, k - 1)

\* a / b in f32, b not 0.
F32Div(a, b) ==
    IF a.m = 0 THEN [m |-> 0, e |-> 0]
    ELSE LET ma == F32Abs(a.m)
             mb == F32Abs(b.m)
             l == F32LongDiv(ma \div mb, ma % mb, mb, 27)
             n == IF l.r # 0 /\ l.q % 2 = 0 THEN l.q + 1 ELSE l.q
         IN F32Of(F32Sign(a.m) * F32Sign(b.m) * n, a.e - b.e - 27)

\* -a and a - b in f32.
F32Neg(a) == [m |-> -a.m, e |-> a.e]
F32Sub(a, b) == F32Add(a, F32Neg(b))

\* a >= b
F32Ge(a, b) == F32Sub(a, b).m >= 0

\* a as usize: the whole part of a, 0 for a negative a.
F32AsUsize(a) ==
    IF a.m <= 0 \/ a.e <= -24 THEN 0
    ELSE IF a.e < 0 THEN a.m \div 2^(-a.e)
    ELSE a.m * 2^a.e

\* The literals n.0 and the time in halves h * 0.5.
F32Whole(n) == F32Of(n, 0)
F32Halves(h) == F32Of(h, -1)

----------------------------------------------------------------------------
(* State.                                                                  *)

VARIABLES
    world,      \* the World
    call,       \* history: the last operation called, the entity it was given
                \* and the component types that entity had at the call
    ret,        \* history: the value the last operation returned
    issued,     \* history: every handle create_entity has returned
    removed,    \* history: every handle a remove_entity has returned Ok for
    lastAdd,    \* history: [entity, T] -> the most recent add_component<T>,
                \* remove_component<T> or removal of the entity was an
                \* add_component<T> that returned Ok
    systems,    \* SystemDispatcher.systems: the registered systems, in order
    dpc,        \* "idle", or "running" inside run_systems
    di,         \* run_systems: position of the loop in systems
    ddt,        \* run_systems: the delta_time of the tick
    runlog,     \* history: the run invocations of the current tick, in order
    raised,     \* history: the system whose run failed in the tick, with its error
    handed,     \* history: the systems handed to add_system so far
    rejected,   \* history: the systems whose add_system returned an error
    trail,      \* history: the World at the entry of the tick, then the World
                \* each run of the tick left, in order
    saws,       \* history: the World each run of the tick was handed, in order
    inits,      \* history: system -> whether each invocation of its initialize
                \* returned Ok, in order
    entry,      \* history: the systems as they were at the entry of the tick
    prevFailed, \* history: the tick before the current one returned an error
    dcall,      \* history: the last dispatcher operation called
    dret,       \* history: the value the last dispatcher operation returned
    ticks,      \* history: the time steps MovementSystem has been run with
    debug,      \* the DebugSystem object: None until DebugSystem::new
    clock,      \* history: the simulated time the DebugSystem has been run for
    reports,    \* history: the simulated times at which the DebugSystem reported
    sim,        \* the SimWorld: dispatcher, time_step, total_time (its world is world)
    attempted,  \* history: the number of SimWorld steps entered
    succeeded,  \* history: the number of SimWorld steps that returned Ok
    printed,    \* history: the reports written during the last SimWorld operation
    stepped     \* history: what each step of the last SimWorld operation returned

wvars == <<world, call, ret, issued, removed, lastAdd>>
dvars == <<systems, dpc, di, ddt, runlog, raised, handed, rejected, trail, saws,
           inits, entry, prevFailed, dcall, dret>>
simvars == <<sim, attempted, succeeded, printed, stepped>>
svars == <<ticks, debug, clock, reports, simvars>>
vars == <<wvars, dvars, svars>>

\* The component types an entity has, by the typed stores.
ComponentSet(w, entity) == {T \in Types : get_component(w, T, entity).some}

\* The handles the operations are called with: every handle the World can
\* issue within the bound (slot i in its k-th use has version 2k - 1), and
\* one handle it never issues.
Handles ==
    {Entity_new(Key(p[1], 2 * p[2] - 1)) :
        p \in {q \in (1..MaxCreates) \X (1..MaxCreates) : q[1] + q[2] - 1 <= MaxCreates}}
    \cup {Entity_new(Key(MaxCreates + 1, 1))}

\* The handles of the entities that exist.
Live == {e \in Handles : entity_exists(world, e)}

WorldInit ==
    /\ world = World_new
    /\ call = [op |-> "new"]
    /\ ret = Unit
    /\ issued = {}
    /\ removed = {}
    /\ lastAdd = [h \in Handles, T \in Types |-> FALSE]

DispInit ==
    /\ systems = <<>>
    /\ dpc = "idle"
    /\ di = 0
    /\ ddt = 0
    /\ runlog = <<>>
    /\ raised = None
    /\ handed = {}
    /\ rejected = {}
    /\ trail = <<>>
    /\ saws = <<>>
    /\ inits = [system \in 1..MaxSystems |-> <<>>]
    /\ entry = <<>>
    /\ prevFailed = FALSE
    /\ dcall = [op |-> "new"]
    /\ dret = Unit

\* SimWorld::new(); the World it holds is kept apart, in world.
SimWorld_new ==
    [dispatcher |-> <<>>,
     time_step |-> F32Div(F32Whole(1), F32Whole(60)),
     total_time |-> F32Whole(0)]

SimInit ==
    /\ ticks = <<>>
    /\ debug = None
    /\ clock = 0
    /\ reports = <<>>
    /\ sim = SimWorld_new
    /\ attempted = 0
    /\ succeeded = 0
    /\ printed = 0
    /\ stepped = <<>>

Init == WorldInit /\ DispInit /\ SimInit

----------------------------------------------------------------------------
(* The World operations as actions.                                        *)

CreateEntity ==
    /\ Cardinality(issued) < MaxCreates
    /\ LET r == create_entity(world) IN
        /\ world' = r.world
        /\ ret' = r.ret
        /\ issued' = issued \cup {r.ret}
    /\ call' = [op |-> "create_entity"]
    /\ UNCHANGED <<removed, lastAdd, dvars, svars>>

RemoveEntity(entity) ==
    LET r == remove_entity(world, entity) IN
    /\ world' = r.world
    /\ ret' = r.ret
    /\ call' = [op |-> "remove_entity", entity |-> entity,
                had |-> ComponentSet(world, entity)]
    /\ removed' = IF r.ret.ok THEN removed \cup {entity} ELSE removed
    /\ lastAdd' = IF r.ret.ok
                  THEN [h \in Handles, T \in Types |->
                            IF h = entity THEN FALSE ELSE lastAdd[h, T]]
                  ELSE lastAdd
    /\ UNCHANGED <<issued, dvars, svars>>

RegisterComponent(T) ==
    /\ world' = register_component(world, T)
    /\ ret' = Unit
    /\ call' = [op |-> "register_component"]
    /\ UNCHANGED <<issued, removed, lastAdd, dvars, svars>>

AddComponent(entity, T, component) ==
    LET r == add_component(world, entity, T, component) IN
    /\ world' = r.world
    /\ ret' = r.ret
    /\ call' = [op |-> "add_component", entity |-> entity,
                had |-> ComponentSet(world, entity)]
    /\ lastAdd' = [lastAdd EXCEPT ![entity, T] = r.ret.ok]
    /\ UNCHANGED <<issued, removed, dvars, svars>>

RemoveComponent(entity, T) ==
    LET r == remove_component(world, entity, T) IN
    /\ world' = r.world
    /\ ret' = r.ret
    /\ call' = [op |-> "remove_component", entity |-> entity,
                had |-> ComponentSet(world, entity)]
    /\ lastAdd' = [lastAdd EXCEPT ![entity, T] = FALSE]
    /\ UNCHANGED <<issued, removed, dvars, svars>>

Next ==
    \/ CreateEntity
    \/ \E entity \in Handles : RemoveEntity(entity)
    \/ \E T \in Types : RegisterComponent(T)
    \/ \E entity \in Handles, T \in Types, component \in Values :
            AddComponent(entity, T, component)
    \/ \E entity \in Handles, T \in Types : RemoveComponent(entity, T)

Spec == Init /\ [][Next]_vars

----------------------------------------------------------------------------
(* The World under its mutating operations and the write through           *)
(* get_component_mut, with the history cut down to the name of the last    *)
(* operation, its result and the handles issued and removed (lastAdd is    *)
(* not kept here), and the operations called on the live entities.         *)

ApiCreateEntity ==
    /\ Cardinality(issued) < MaxCreates
    /\ LET r == create_entity(world) IN
        /\ world' = r.world
        /\ ret' = r.ret
        /\ issued' = issued \cup {r.ret}
    /\ call' = [op |-> "create_entity"]
    /\ UNCHANGED <<removed, lastAdd, dvars, svars>>

ApiRemoveEntity(entity) ==
    LET r == remove_entity(world, entity) IN
    /\ world' = r.world
    /\ ret' = r.ret
    /\ call' = [op |-> "remove_entity"]
    /\ removed' = IF r.ret.ok THEN removed \cup {entity} ELSE removed
    /\ UNCHANGED <<issued, lastAdd, dvars, svars>>

ApiRegisterComponent(T) ==
    /\ world' = register_component(world, T)
    /\ ret' = Unit
    /\ call' = [op |-> "register_component"]
    /\ UNCHANGED <<issued, removed, lastAdd, dvars, svars>>

ApiAddComponent(entity, T, component) ==
    LET r == add_component(world, entity, T, component) IN
    /\ world' = r.world
    /\ ret' = r.ret
    /\ call' = [op |-> "add_component"]
    /\ UNCHANGED <<issued, removed, lastAdd, dvars, svars>>

ApiRemoveComponent(entity, T) ==
    LET r == remove_component(world, entity, T) IN
    /\ world' = r.world
    /\ ret' = r.ret
    /\ call' = [op |-> "remove_component"]
    /\ UNCHANGED <<issued, removed, lastAdd, dvars, svars>>

\* A write through the reference get_component_mut returns, if it returns
\* one; ret is what the reference held.
WriteComponent(entity, T, component) ==
    /\ world' = get_component_mut_write(world, T, entity, component)
    /\ ret' = get_component_mut(world, T, entity)
    /\ call' = [op |-> "get_component_mut"]
    /\ UNCHANGED <<issued, removed, lastAdd, dvars, svars>>

ApiNext ==
    \/ ApiCreateEntity
    \/ \E entity \in Live : ApiRemoveEntity(entity)
    \/ \E T \in Types : ApiRegisterComponent(T)
    \/ \E entity \in Live, T \in Types, component \in Values :
            ApiAddComponent(entity, T, component)
    \/ \E entity \in Live, T \in Types : ApiRemoveComponent(entity, T)
    \/ \E entity \in Live, T \in Types, component \in Values :
            WriteComponent(entity, T, component)

ApiSpec == Init /\ [][ApiNext]_vars

----------------------------------------------------------------------------
(* The World with the storage handle of get_component_storage_mut in the   *)
(* caller's hands: insert and remove called on the handle itself, for the  *)
(* entities that are live.                                                 *)

\* world.get_component_storage_mut::<T>().map(|s| s.insert(id, component))
StorageInsert(T, entity, component) ==
    LET handle == get_component_storage_mut(world, T) IN
    /\ world' = IF handle.some
                THEN StorageHandleWrite(world, T,
                        TypedComponentStorage_insert(handle.val, Entity_id(entity), component))
                ELSE world
    /\ ret' = IF handle.some THEN Some(Unit) ELSE None
    /\ call' = [op |-> "storage_insert", entity |-> entity,
                had |-> ComponentSet(world, entity)]
    /\ UNCHANGED <<issued, removed, lastAdd, dvars, svars>>

\* world.get_component_storage_mut::<T>().map(|s| s.remove(id))
StorageRemove(T, entity) ==
    LET handle == get_component_storage_mut(world, T) IN
    /\ world' = IF handle.some
                THEN StorageHandleWrite(world, T,
                        TypedComponentStorage_remove(handle.val, Entity_id(entity)).storage)
                ELSE world
    /\ ret' = IF handle.some
              THEN Some(TypedComponentStorage_remove(handle.val, Entity_id(entity)).ret)
              ELSE None
    /\ call' = [op |-> "storage_remove", entity |-> entity,
                had |-> ComponentSet(world, entity)]
    /\ UNCHANGED <<issued, removed, lastAdd, dvars, svars>>

StorageNext ==
    \/ Next
    \/ \E T \in Types, entity \in Live, component \in Values :
            StorageInsert(T, entity, component)
    \/ \E T \in Types, entity \in Live : StorageRemove(T, entity)

StorageSpec == Init /\ [][StorageNext]_vars

----------------------------------------------------------------------------
(* Properties of the World.                                                *)

\* What the state holds, read directly from the two indexes.
StoreHolds(w, T, entity) ==
    /\ T \in DOMAIN w.component_storages
    /\ Entity_id(entity) \in DOMAIN w.component_storages[T].components
MaskHolds(w, T, entity) ==
    /\ Entity_id(entity) \in DOMAIN w.entity_component_masks
    /\ T \in SeqToSet(w.entity_component_masks[Entity_id(entity)])
Unchanged(w, entity) == [world |-> w, ret |-> Err(EntityNotFound(entity))]

\* C1: for every live entity e and every type T, e's mask contains T
\* exactly when T's typed store (if T is registered) holds an entry for e,
\* and has_component<T>(e) is true exactly when get_component<T>(e)
\* returns a value -- after any sequence of the five World operations.
C1_MaskMatchesStore ==
    \A e \in Handles, T \in Types :
        entity_exists(world, e) =>
            /\ MaskHolds(world, T, e) <=> StoreHolds(world, T, e)
            /\ has_component(world, T, e) <=> get_component(world, T, e).some

\* A component has just been taken off an entity that keeps another one,
\* while a second live entity has none.
C1_Witness ==
    /\ call.op = "remove_component" /\ ret.ok /\ ret.val.some
    /\ entity_exists(world, call.entity)
    /\ ComponentSet(world, call.entity) # {}
    /\ \E e \in Live : ComponentSet(world, e) = {}
                        /\ world.entity_component_masks[e.id] = <<>>

\* C2: remove_entity(e) on a live e returns Ok and leaves, in that one
\* step, e not existing, entity_count one lower, no entry for e in any
\* typed store, no mask entry for e and has_component false for every
\* type; and in no state does a typed store hold an entry for an entity
\* that is not live.
C2_RemoveEntityPurges ==
    /\ \A e \in Handles :
          entity_exists(world, e) =>
            LET r == remove_entity(world, e) IN
            /\ r.ret = Ok(Unit)
            /\ ~entity_exists(r.world, e)
            /\ entity_count(r.world) = entity_count(world) - 1
            /\ Entity_id(e) \notin DOMAIN r.world.entity_component_masks
            /\ \A T \in Types :
                  /\ ~StoreHolds(r.world, T, e)
                  /\ ~get_component(r.world, T, e).some
                  /\ ~has_component(r.world, T, e)
    /\ (call.op = "remove_entity" /\ ret.ok) =>
            /\ ~entity_exists(world, call.entity)
            /\ \A T \in Types : ~has_component(world, T, call.entity)
    /\ \A T \in DOMAIN world.component_storages :
          \A id \in DOMAIN world.component_storages[T].components :
              SlotMap_contains_key(world.entities, id)

\* An entity that had every component type has just been removed, and an
\* entity with components is still there.
C2_Witness ==
    /\ call.op = "remove_entity" /\ ret = Ok(Unit)
    /\ call.had = Types
    /\ \E e \in Live : ComponentSet(world, e) = Types

\* C3: for every handle e and type T, has_component<T>(e) is true exactly
\* when the most recent add_component<T>(e, _), remove_component<T>(e) or
\* removal of e was an add_component<T>(e, _) that succeeded.
C3_HasIffLastWasAdd ==
    \A e \in Handles, T \in Types :
        has_component(world, T, e) <=> lastAdd[e, T]

\* A component present a moment ago has just been removed from an entity
\* that still has another one.
C3_Witness ==
    /\ call.op = "remove_component" /\ ret.ok /\ ret.val.some
    /\ \E T \in Types : lastAdd[call.entity, T]
    /\ \E T \in Types : ~lastAdd[call.entity, T] /\ T \in call.had

\* The slices of type ids query_entities is asked with.
Slices == UNION {[1..n -> Types] : n \in 0..Cardinality(Types)}

\* C4: for every slice R of type tags, query_entities(R) returns exactly
\* the live entities whose component set (by the typed stores) includes
\* every tag of R, whatever the order the components were added in.
C4_QueryIsSupersetFilter ==
    \A R \in Slices :
        SeqToSet(query_entities(world, R)) =
            {e \in Handles : entity_exists(world, e)
                             /\ SeqToSet(R) \subseteq ComponentSet(world, e)}

\* Two live entities have both types, added in opposite orders, and a
\* query for both returns both.
C4_Witness ==
    \E e1 \in Live, e2 \in Live :
        /\ world.entity_component_masks[e1.id] = <<"Position", "Velocity">>
        /\ world.entity_component_masks[e2.id] = <<"Velocity", "Position">>
        /\ {e1, e2} \subseteq SeqToSet(query_entities(world, <<"Position", "Velocity">>))

\* C5: on a live entity e that has a T, add_component<T>(e, v2) returns
\* Ok, leaves get_component<T>(e) = v2 and T once in e's mask; and so do
\* two adds in a row, whatever e had before.
C5_AddOverwrites ==
    \A e \in Handles, T \in Types, v1 \in Values, v2 \in Values :
        entity_exists(world, e) =>
            LET r1 == add_component(world, e, T, v1)
                r2 == add_component(r1.world, e, T, v2)
                mask == r2.world.entity_component_masks[e.id]
            IN
            /\ r1.ret = Ok(Unit) /\ r2.ret = Ok(Unit)
            /\ get_component(r1.world, T, e) = Some(v1)
            /\ get_component(r2.world, T, e) = Some(v2)
            /\ Len(SelectSeq(mask, LAMBDA t : t = T)) = 1
            /\ r2.world = [r1.world EXCEPT
                    !.component_storages[T].components[e.id] = v2]

\* An add_component has just succeeded on an entity that already had
\* every type, so it replaced a value.
C5_Witness ==
    /\ call.op = "add_component" /\ ret = Ok(Unit)
    /\ call.had = Types
    /\ \E T \in Types : get_component(world, T, call.entity) = Some("v2")

\* C6: remove_entity(e) on a handle that is not live -- never created, or
\* already removed -- returns EntityNotFound(e) and leaves the World as it
\* was; of two consecutive remove_entity(e) the first returns Ok and the
\* second EntityNotFound(e).
C6_RemoveEntityNotFound ==
    /\ \A e \in Handles :
          ~entity_exists(world, e) => remove_entity(world, e) = Unchanged(world, e)
    /\ \A e \in Handles :
          entity_exists(world, e) =>
            LET r == remove_entity(world, e) IN
            /\ r.ret = Ok(Unit)
            /\ remove_entity(r.world, e) = Unchanged(r.world, e)
    /\ (call.op = "remove_entity" /\ ~ret.ok) =>
            /\ ret = Err(EntityNotFound(call.entity))
            /\ call.had = {}

\* A remove_entity has just failed on a handle removed earlier, while a
\* handle never created is at hand too.
C6_Witness ==
    /\ call.op = "remove_entity"
    /\ ret = Err(EntityNotFound(call.entity))
    /\ call.entity \in removed
    /\ \E e \in Handles \ issued : ~entity_exists(world, e)

\* C7: add_component<T>(e, v) and remove_component<T>(e) on a handle that
\* is not live return EntityNotFound(e), whether or not T is registered,
\* and leave the World as it was.
C7_ComponentOpsNotFound ==
    /\ \A e \in Handles, T \in Types :
          ~entity_exists(world, e) =>
            /\ remove_component(world, e, T) = Unchanged(world, e)
            /\ \A v \in Values : add_component(world, e, T, v) = Unchanged(world, e)
    /\ (call.op \in {"add_component", "remove_component"}
            /\ call.entity \notin Live) =>
            ret = Err(EntityNotFound(call.entity))

\* An add_component has just failed on a handle that is not live, with
\* one type registered and the other not.
C7_Witness ==
    /\ call.op = "add_component"
    /\ ret = Err(EntityNotFound(call.entity))
    /\ Cardinality(DOMAIN world.component_storages) = 1

----------------------------------------------------------------------------
(* SystemDispatcher (src/ecs/src/system.rs).  A system is an opaque object *)
(* whose initialize and run return a result the dispatcher cannot          *)
(* foresee; the actions draw that result from Results.                     *)


SysIds == 1..MaxSystems
Dts == {1, 2}
ErrMsgs == {"e1", "e2"}
Results == {Ok(Unit)} \cup {Err(SystemError(m)) : m \in ErrMsgs}

\* add_system that pushes the system before it initializes it.
add_system_pushes_first(sys_seq, system, initialized) ==
    IF ~initialized.ok
    THEN [systems |-> Append(sys_seq, system), ret |-> initialized]
    ELSE [systems |-> Append(sys_seq, system), ret |-> Ok(Unit)]

\* add_system that puts the system at the front (insert(0, ..)).
add_system_prepends(sys_seq, system, initialized) ==
    IF ~initialized.ok
    THEN [systems |-> sys_seq, ret |-> initialized]
    ELSE [systems |-> <<system>> \o sys_seq, ret |-> Ok(Unit)]

\* add_system that drops the result of initialize (let _ = ...).
add_system_ignores_initialize(sys_seq, system, initialized) ==
    [systems |-> Append(sys_seq, system), ret |-> Ok(Unit)]

\* system.initialize(world)?; self.systems.push(Box::new(system)); Ok(())
add_system(sys_seq, system, initialized) ==
    IF ~initialized.ok
    THEN [systems |-> sys_seq, ret |-> initialized]
    ELSE [systems |-> Append(sys_seq, system), ret |-> Ok(Unit)]

\* The loop walking the systems from the last to the first.
run_systems_at_reversed(sys_seq, i) == sys_seq[Len(sys_seq) + 1 - i]

\* for system in &mut self.systems: the system the loop visits i-th.
run_systems_at(sys_seq, i) == sys_seq[i]

\* A loop that takes up after the system that failed in the tick before.
run_systems_begin_resumes(i, failed) == IF failed THEN i + 1 ELSE 1

\* for system in &mut self.systems: the position the loop starts at,
\* wherever the loop of the tick before stood and whether it failed.
run_systems_begin(i, failed) == 1

\* The loop dropping the result of run (no `?`).
run_systems_step_ignores_error(i, result) ==
    [pc |-> "running", i |-> i + 1, ret |-> Unit]

\* system.run(world, delta_time)?  -- go on to the next system, or return
\* the error as it is.
run_systems_step(i, result) ==
    IF result.ok
    THEN [pc |-> "running", i |-> i + 1, ret |-> Unit]
    ELSE [pc |-> "idle", i |-> i, ret |-> result]

system_count(sys_seq) == Len(sys_seq)

\* What a system's run may do to the World it is handed: nothing, or
\* create an entity and give it a component.
Effects == {"none", "spawn"}
System_run(w, effect) ==
    IF effect = "spawn"
    THEN LET c == create_entity(w) IN
         add_component(c.world, c.ret, "Position", "v1").world
    ELSE w

\* A tick that puts the World back as it was at its entry when a run fails.
run_systems_leaves_rolled_back(left_world, at_entry, result) ==
    IF result.ok THEN left_world ELSE at_entry

\* system.run(world, delta_time)?: whether the run returned Ok or the
\* error leaves through `?`, the World stays as the run left it.
run_systems_leaves(left_world, at_entry, result) == left_world

\* run handed the World as it was at the entry of the tick.
run_systems_world_at_entry(now, at_entry) == at_entry

\* system.run(world, delta_time): the World the run is handed is the
\* dispatcher's own &mut World, as it is now.
run_systems_world(now, at_entry) == now

AddSystem(system, initialized) ==
    /\ dpc = "idle"
    /\ system \notin handed
    /\ LET r == add_system(systems, system, initialized) IN
        /\ systems' = r.systems
        /\ dret' = r.ret
        /\ rejected' = IF r.ret.ok THEN rejected ELSE rejected \cup {system}
    /\ handed' = handed \cup {system}
    /\ inits' = [inits EXCEPT ![system] = Append(@, initialized.ok)]
    /\ dcall' = [op |-> "add_system", system |-> system]
    /\ UNCHANGED <<dpc, di, ddt, runlog, raised, trail, saws, entry, prevFailed, wvars,
                   svars>>

\* run_systems is entered: the loop stands before the first system.
RunSystemsBegin(delta_time) ==
    /\ dpc = "idle"
    /\ dpc' = "running"
    /\ di' = run_systems_begin(di, raised.some)
    /\ entry' = systems
    /\ prevFailed' = raised.some
    /\ ddt' = delta_time
    /\ runlog' = <<>>
    /\ raised' = None
    /\ dcall' = [op |-> "run_systems", dt |-> delta_time]
    /\ dret' = Unit
    /\ trail' = <<world>>
    /\ saws' = <<>>
    /\ UNCHANGED <<systems, handed, rejected, inits, wvars, svars>>

\* One pass of the loop: the system's run is invoked, does effect to the
\* World it is handed and returns result.
RunSystem(result, effect) ==
    /\ dpc = "running"
    /\ di <= Len(systems)
    /\ effect = "spawn" => entity_count(world) < MaxCreates
    /\ LET system == run_systems_at(systems, di)
           r == run_systems_step(di, result)
           handed_world == run_systems_world(world, trail[1])
           left_world == System_run(handed_world, effect)
       IN
        /\ world' = run_systems_leaves(left_world, trail[1], result)
        /\ saws' = Append(saws, handed_world)
        /\ trail' = Append(trail, left_world)
        /\ runlog' = Append(runlog, [system |-> system, dt |-> ddt])
        /\ raised' = IF result.ok THEN raised
                      ELSE Some([system |-> system, result |-> result])
        /\ dpc' = r.pc
        /\ di' = r.i
        /\ dret' = r.ret
    /\ UNCHANGED <<systems, ddt, handed, rejected, inits, entry, prevFailed, dcall,
                   call, ret, issued, removed, lastAdd, svars>>

\* The loop is over: Ok(()).
RunSystemsReturn ==
    /\ dpc = "running"
    /\ di > Len(systems)
    /\ dpc' = "idle"
    /\ dret' = Ok(Unit)
    /\ UNCHANGED <<systems, di, ddt, runlog, raised, handed, rejected, trail, saws,
                   inits, entry, prevFailed, dcall, wvars, svars>>

DispNext ==
    \/ \E system \in SysIds, initialized \in Results : AddSystem(system, initialized)
    \/ \E delta_time \in Dts : RunSystemsBegin(delta_time)
    \/ \E result \in Results, effect \in Effects : RunSystem(result, effect)
    \/ RunSystemsReturn

DispSpec == Init /\ [][DispNext]_vars

-----------------------------------------------------------------------------
(* The components of the simulator and the values explored.               *)

\* Position::new(x, y) and Velocity::new(x, y).
Position_new(x, y) == [x |-> x, y |-> y]
Velocity_new(x, y) == [x |-> x, y |-> y]

\* The component values and time steps explored: positions (0, 0) and
\* (16777216, 0), velocities (10, 5) and (2, 0), time steps 0.5 and 1.0.
Positions == {Position_new(F32Whole(0), F32Whole(0)),
              Position_new(F32Of(1, 24), F32Whole(0))}
Velocities == {Velocity_new(F32Whole(10), F32Whole(5)),
               Velocity_new(F32Whole(2), F32Whole(0))}
Components(T) == IF T = "Position" THEN Positions ELSE Velocities
TimeSteps == {F32Halves(1), F32Whole(1)}

-----------------------------------------------------------------------------
(* MovementSystem.                                                         *)

\* A panic: the run is abandoned where it stands.
Panic(msg) == [ok |-> FALSE, panic |-> msg]

\* position.x += velocity.x * delta_time; position.y += velocity.y * delta_time
\* with the time step left out.
integrate_ignores_delta_time(position, velocity, delta_time) ==
    [x |-> F32Add(position.x, velocity.x), y |-> F32Add(position.y, velocity.y)]

\* position.x += velocity.x * delta_time; position.y += velocity.y * delta_time
integrate(position, velocity, delta_time) ==
    [x |-> F32Add(position.x, F32Mul(velocity.x, delta_time)),
     y |-> F32Add(position.y, F32Mul(velocity.y, delta_time))]

\* The test of the loop body with only the Position looked for.
MovementSystem_moves_any_position(w, entity) == has_component(w, "Position", entity)

\* world.has_component::<Velocity>(entity) && world.has_component::<Position>(entity)
MovementSystem_moves(w, entity) ==
    has_component(w, "Velocity", entity) /\ has_component(w, "Position", entity)

\* The loop with only its first pass made.
MovementSystem_run_from_first_only(w, snapshot, i, delta_time) ==
    IF i > Len(snapshot) \/ i > 1 THEN [world |-> w, ret |-> Ok(Unit)]
    ELSE LET entity == snapshot[i]
             velocity == get_component(w, "Velocity", entity)
             position == get_component_mut(w, "Position", entity)
         IN IF MovementSystem_moves(w, entity) /\ velocity.some /\ position.some
            THEN [world |-> get_component_mut_write(w, "Position", entity,
                                integrate(position.val, velocity.val, delta_time)),
                  ret |-> Ok(Unit)]
            ELSE [world |-> w, ret |-> Ok(Unit)]

RECURSIVE MovementSystem_run_from(_, _, _, _)
\* for entity in entities { ... } from the i-th entity of the snapshot on.
MovementSystem_run_from(w, snapshot, i, delta_time) ==
    IF i > Len(snapshot) THEN [world |-> w, ret |-> Ok(Unit)]
    ELSE LET entity == snapshot[i] IN
         IF ~MovementSystem_moves(w, entity)
         THEN MovementSystem_run_from(w, snapshot, i + 1, delta_time)
         ELSE LET velocity == get_component(w, "Velocity", entity) IN
              IF ~velocity.some
              THEN [world |-> w, ret |-> Panic("unwrap on None")]
              ELSE LET position == get_component_mut(w, "Position", entity)
                       moved == IF position.some
                                THEN get_component_mut_write(w, "Position", entity,
                                         integrate(position.val, velocity.val, delta_time))
                                ELSE w
                   IN MovementSystem_run_from(moved, snapshot, i + 1, delta_time)

\* MovementSystem::run(&mut self, world, delta_time): the entities are
\* collected first, then visited in that order.
MovementSystem_run(w, delta_time) == MovementSystem_run_from(w, entities(w), 1, delta_time)

\* The World is populated through its API and then the MovementSystem is
\* run on it, tick after tick, as SimWorld does.
MoveCreateEntity ==
    /\ entity_count(world) < MaxCreates
    /\ LET r == create_entity(world) IN
        /\ world' = r.world
        /\ ret' = r.ret
        /\ issued' = issued \cup {r.ret}
    /\ call' = [op |-> "create_entity"]
    /\ UNCHANGED <<removed, lastAdd, dvars, svars>>

MoveAddComponent(entity, T, component) ==
    /\ ticks = <<>>
    /\ LET r == add_component(world, entity, T, component) IN
        /\ world' = r.world
        /\ ret' = r.ret
    /\ call' = [op |-> "add_component"]
    /\ UNCHANGED <<issued, removed, lastAdd, dvars, svars>>

MovementTick(delta_time) ==
    /\ Len(ticks) < MaxTicks
    /\ LET r == MovementSystem_run(world, delta_time) IN
        /\ world' = r.world
        /\ ret' = r.ret
    /\ ticks' = Append(ticks, delta_time)
    /\ call' = [op |-> "MovementSystem::run"]
    /\ UNCHANGED <<issued, removed, lastAdd, dvars, debug, clock, reports, simvars>>

MoveNext ==
    \/ MoveCreateEntity
    \/ \E entity \in Live, T \in Types :
            \E component \in Components(T) : MoveAddComponent(entity, T, component)
    \/ \E delta_time \in TimeSteps : MovementTick(delta_time)

MoveSpec == Init /\ [][MoveNext]_vars

\* The same with the storage handle of get_component_storage_mut in the
\* caller's hands while the World is populated.
MoveStorageInsert(T, entity, component) ==
    /\ ticks = <<>>
    /\ StorageInsert(T, entity, component)

MoveStorageRemove(T, entity) ==
    /\ ticks = <<>>
    /\ StorageRemove(T, entity)

MoveStorageNext ==
    \/ MoveNext
    \/ \E T \in Types, entity \in Live :
            \E component \in Components(T) : MoveStorageInsert(T, entity, component)
    \/ \E T \in Types, entity \in Live : MoveStorageRemove(T, entity)

MoveStorageSpec == Init /\ [][MoveStorageNext]_vars

-----------------------------------------------------------------------------
(* DebugSystem.                                                            *)

\* The print intervals (1.0 and 2.0) and time steps (0.5, 1.0 and 1.5)
\* explored, in halves.
Intervals == {2, 4}
DebugSteps == {1, 2, 3}

\* DebugSystem::new(print_interval)
DebugSystem_new(print_interval) ==
    [name |-> "DebugSystem", print_interval |-> print_interval, elapsed |-> F32Whole(0)]

\* The report: the entity count, and for every entity of world.entities()
\* its id and what get_component finds of its Position and its Velocity.
DebugSystem_report(w) ==
    [count |-> entity_count(w),
     lines |-> [i \in 1..Len(entities(w)) |->
                   [id |-> Entity_id(entities(w)[i]),
                    pos |-> get_component(w, "Position", entities(w)[i]),
                    vel |-> get_component(w, "Velocity", entities(w)[i])]]]

\* DebugSystem::run whose report clears the masks of the World.
DebugSystem_run_clears_masks(self, w, delta_time) ==
    LET elapsed == F32Add(self.elapsed, delta_time) IN
    IF F32Ge(elapsed, self.print_interval)
    THEN [self |-> [self EXCEPT !.elapsed = F32Whole(0)],
          world |-> [w EXCEPT !.entity_component_masks =
                                  [id \in DOMAIN w.entity_component_masks |-> <<>>]],
          printed |-> TRUE, report |-> Some(DebugSystem_report(w)), ret |-> Ok(Unit)]
    ELSE [self |-> [self EXCEPT !.elapsed = elapsed], world |-> w,
          printed |-> FALSE, report |-> None, ret |-> Ok(Unit)]

\* DebugSystem::run(&mut self, world, delta_time).  printed tells whether
\* the report was written to the standard output, report what it said; the
\* World is read only through entity_count, entities and get_component.
DebugSystem_run(self, w, delta_time) ==
    LET elapsed == F32Add(self.elapsed, delta_time) IN
    IF F32Ge(elapsed, self.print_interval)
    THEN [self |-> [self EXCEPT !.elapsed = F32Whole(0)], world |-> w,
          printed |-> TRUE, report |-> Some(DebugSystem_report(w)), ret |-> Ok(Unit)]
    ELSE [self |-> [self EXCEPT !.elapsed = elapsed], world |-> w,
          printed |-> FALSE, report |-> None, ret |-> Ok(Unit)]

DebugNew(print_interval) ==
    /\ ~debug.some
    /\ debug' = Some(DebugSystem_new(F32Halves(print_interval)))
    /\ UNCHANGED <<wvars, dvars, ticks, clock, reports, simvars>>

DebugRun(delta_time) ==
    /\ debug.some
    /\ clock + delta_time <= MaxClock
    /\ LET r == DebugSystem_run(debug.val, world, F32Halves(delta_time)) IN
        /\ debug' = Some(r.self)
        /\ world' = r.world
        /\ ret' = r.ret
        /\ reports' = IF r.printed THEN Append(reports, clock + delta_time) ELSE reports
    /\ clock' = clock + delta_time
    /\ call' = [op |-> "DebugSystem::run"]
    /\ UNCHANGED <<issued, removed, lastAdd, dvars, ticks, simvars>>

DebugNext ==
    \/ \E print_interval \in Intervals : DebugNew(print_interval)
    \/ \E delta_time \in DebugSteps : DebugRun(delta_time)

DebugSpec == Init /\ [][DebugNext]_vars

-----------------------------------------------------------------------------
(* SimWorld: a World, a SystemDispatcher, time_step and total_time.  The   *)
(* dispatcher is a public field, so that the caller can add systems of its *)
(* own: CallerSystem stands for one, whose initialize and run return what  *)
(* the caller's code makes them return.                                    *)

\* MovementSystem::new() and a system of the caller's.
MovementSystem_new == [name |-> "MovementSystem"]
CallerSystem_new == [name |-> "CallerSystem"]

\* The systems the caller adds: one of its own, and a DebugSystem that
\* reports every 1/30 s, that is every second step.
CallerSystems == {CallerSystem_new, DebugSystem_new(F32Div(F32Whole(1), F32Whole(30)))}

\* What the run of the system of the caller's returns in a step.
StepResults == {Ok(Unit), Err(SystemError("e1"))}

\* The durations run_for is called with: 0.05 s and 0.1 s.
Durations == {F32Div(F32Whole(1), F32Whole(20)), F32Div(F32Whole(1), F32Whole(10))}

\* MovementSystem::initialize(&mut self, world)
MovementSystem_initialize(w) ==
    [world |-> register_component(register_component(w, "Position"), "Velocity"),
     ret |-> Ok(Unit)]

\* system.initialize(world): MovementSystem's own, DebugSystem's own (it
\* prints and returns Ok), and initialized for the system of the caller's.
System_initialize(system, w, initialized) ==
    IF system.name = "MovementSystem" THEN MovementSystem_initialize(w)
    ELSE IF system.name = "DebugSystem" THEN [world |-> w, ret |-> Ok(Unit)]
    ELSE [world |-> w, ret |-> initialized]

\* What system.run leaves when system is the MovementSystem and r is what
\* MovementSystem_run returned.
MovementSystem_ran(system, r) ==
    [self |-> system, world |-> r.world, printed |-> FALSE, ret |-> r.ret]

\* system.run(world, delta_time): result is what the run of the system of
\* the caller's returns.
System_run_of(system, w, delta_time, result) ==
    IF system.name = "MovementSystem"
    THEN MovementSystem_ran(system, MovementSystem_run(w, delta_time))
    ELSE IF system.name = "DebugSystem" THEN DebugSystem_run(system, w, delta_time)
    ELSE [self |-> system, world |-> w, printed |-> FALSE, ret |-> result]

RECURSIVE SystemDispatcher_run_systems_from(_, _, _, _, _, _, _)
\* The loop after the i-th system ran and left r, step being what the `?`
\* made of r.ret: return the error, or go on with the next system.
SystemDispatcher_run_systems_next(sys_seq, at_entry, delta_time, i, result, count, r, step) ==
    IF step.pc = "idle"
    THEN [systems |-> [sys_seq EXCEPT ![i] = r.self],
          world |-> run_systems_leaves(r.world, at_entry, r.ret),
          printed |-> IF r.printed THEN count + 1 ELSE count,
          ret |-> step.ret]
    ELSE SystemDispatcher_run_systems_from([sys_seq EXCEPT ![i] = r.self],
                                           run_systems_leaves(r.world, at_entry, r.ret),
                                           at_entry, delta_time, step.i, result,
                                           IF r.printed THEN count + 1 ELSE count)

\* The i-th system having run and left r.
SystemDispatcher_run_systems_ran(sys_seq, at_entry, delta_time, i, result, count, r) ==
    SystemDispatcher_run_systems_next(sys_seq, at_entry, delta_time, i, result, count, r,
                                      run_systems_step(i, r.ret))

\* for system in &mut self.systems { system.run(world, delta_time)?; } Ok(())
\* from the i-th system on; count is the number of reports written so far.
SystemDispatcher_run_systems_from(sys_seq, w, at_entry, delta_time, i, result, count) ==
    IF i > Len(sys_seq)
    THEN [systems |-> sys_seq, world |-> w, printed |-> count, ret |-> Ok(Unit)]
    ELSE SystemDispatcher_run_systems_ran(
             sys_seq, at_entry, delta_time, i, result, count,
             System_run_of(run_systems_at(sys_seq, i), run_systems_world(w, at_entry),
                           delta_time, result))

\* SystemDispatcher::run_systems(&mut self, world, delta_time)
SystemDispatcher_run_systems(sys_seq, w, delta_time, result) ==
    SystemDispatcher_run_systems_from(sys_seq, w, w, delta_time,
                                      run_systems_begin(0, FALSE), result, 0)

\* self.dispatcher.add_system(system, &mut self.world)
SimWorld_add_system(self, w, system, initialized) ==
    LET i == System_initialize(system, w, initialized)
        a == add_system(self.dispatcher, system, i.ret)
    IN [self |-> [self EXCEPT !.dispatcher = a.systems], world |-> i.world, ret |-> a.ret]

\* SimWorld::initialize with the DebugSystem added first.
SimWorld_initialize_debug_first(self, w) ==
    LET d == SimWorld_add_system(self, w, DebugSystem_new(F32Whole(2)), Ok(Unit))
        m == SimWorld_add_system(d.self, d.world, MovementSystem_new, Ok(Unit))
    IN m

\* SimWorld::initialize(&mut self)
SimWorld_initialize(self, w) ==
    LET m == SimWorld_add_system(self, w, MovementSystem_new, Ok(Unit)) IN
    IF ~m.ret.ok THEN m
    ELSE LET d == SimWorld_add_system(m.self, m.world, DebugSystem_new(F32Whole(2)), Ok(Unit)) IN
         IF ~d.ret.ok THEN d
         ELSE [self |-> d.self, world |-> d.world, ret |-> Ok(Unit)]

\* The components of the three test entities, in the order they are added.
TestEntities ==
    << << <<"Name", [value |-> "Moving Object"]>>,
          <<"Position", Position_new(F32Whole(0), F32Whole(0))>>,
          <<"Velocity", Velocity_new(F32Whole(10), F32Whole(5))>>,
          <<"Mass", [value |-> F32Whole(1)]>>,
          <<"Rotation", [angle |-> F32Whole(0)]>> >>,
       << <<"Name", [value |-> "Stationary Object"]>>,
          <<"Position", Position_new(F32Whole(50), F32Whole(30))>>,
          <<"Velocity", Velocity_new(F32Whole(0), F32Whole(0))>>,
          <<"Mass", [value |-> F32Of(5, -1)]>> >>,
       << <<"Name", [value |-> "Fast Object"]>>,
          <<"Position", Position_new(F32Whole(-20), F32Whole(10))>>,
          <<"Velocity", Velocity_new(F32Whole(-15), F32Whole(8))>>,
          <<"Mass", [value |-> F32Halves(1)]>> >> >>

RECURSIVE SimWorld_populate_from(_, _, _, _)
\* The rest of populate_with_test_entities from the k-th component of the
\* n-th test entity on; k = 0 stands before `let entity = create_entity()`.
SimWorld_populate_from(w, n, k, entity) ==
    IF n > Len(TestEntities) THEN [world |-> w, ret |-> Ok(Unit)]
    ELSE IF k = 0
    THEN LET c == create_entity(w) IN SimWorld_populate_from(c.world, n, 1, c.ret)
    ELSE IF k > Len(TestEntities[n]) THEN SimWorld_populate_from(w, n + 1, 0, entity)
    ELSE LET a == add_component(w, entity, TestEntities[n][k][1], TestEntities[n][k][2]) IN
         IF ~a.ret.ok THEN a
         ELSE SimWorld_populate_from(a.world, n, k + 1, entity)

\* SimWorld::populate_with_test_entities(&mut self)
SimWorld_populate_with_test_entities(self, w) ==
    LET r == SimWorld_populate_from(w, 1, 0, None) IN
    [self |-> self, world |-> r.world, ret |-> r.ret]

\* SimWorld::step that adds the time step whatever run_systems returned.
SimWorld_step_counts_failed(self, r) ==
    [self |-> [self EXCEPT !.dispatcher = r.systems,
                           !.total_time = F32Add(self.total_time, self.time_step)],
     world |-> r.world, printed |-> r.printed, ret |-> r.ret]

\* self.dispatcher.run_systems(..)?; self.total_time += self.time_step; Ok(())
\* once run_systems has returned r.
SimWorld_step_after(self, r) ==
    IF ~r.ret.ok
    THEN [self |-> [self EXCEPT !.dispatcher = r.systems],
          world |-> r.world, printed |-> r.printed, ret |-> r.ret]
    ELSE [self |-> [self EXCEPT !.dispatcher = r.systems,
                                !.total_time = F32Add(self.total_time, self.time_step)],
          world |-> r.world, printed |-> r.printed, ret |-> Ok(Unit)]

\* SimWorld::step(&mut self)
SimWorld_step(self, w, result) ==
    SimWorld_step_after(self, SystemDispatcher_run_systems(self.dispatcher, w,
                                                           self.time_step, result))

RECURSIVE SimWorld_run_for_from(_, _, _, _, _, _, _)
\* self.step()?; once the step numbered step has returned r: return its
\* error, or go on with the next step.
SimWorld_run_for_after(self, w, step, steps, fails_at, count, results, r) ==
    IF ~r.ret.ok
    THEN [self |-> r.self, world |-> r.world, printed |-> count + r.printed,
          results |-> Append(results, r.ret), ret |-> r.ret]
    ELSE SimWorld_run_for_from(r.self, r.world, step + 1, steps, fails_at,
                               count + r.printed, Append(results, r.ret))

\* for step in 0..steps { self.step()?; ... } Ok(()) from step on.  The
\* system of the caller's fails in the step numbered fails_at, with e1;
\* count is the number of reports written so far and results what the steps
\* entered so far returned.
SimWorld_run_for_from(self, w, step, steps, fails_at, count, results) ==
    IF step >= steps
    THEN [self |-> self, world |-> w, printed |-> count, results |-> results,
          ret |-> Ok(Unit)]
    ELSE SimWorld_run_for_after(self, w, step, steps, fails_at, count, results,
             SimWorld_step(self, w, IF step = fails_at THEN Err(SystemError("e1"))
                                    ELSE Ok(Unit)))

\* let steps = (duration / self.time_step) as usize;
SimWorld_run_for_steps(self, duration) == F32AsUsize(F32Div(duration, self.time_step))

\* SimWorld::run_for(&mut self, duration)
SimWorld_run_for(self, w, duration, fails_at) ==
    SimWorld_run_for_from(self, w, 0, SimWorld_run_for_steps(self, duration), fails_at,
                          0, <<>>)

\* The number of results that are Ok.
OkCount(results) == Cardinality({i \in 1..Len(results) : results[i].ok})

\* The SimWorld is set up (initialize, populate_with_test_entities, systems
\* of the caller's) and then stepped, as main does.

SimInitialize ==
    /\ attempted = 0
    /\ Len(sim.dispatcher) + 2 <= MaxSystems
    /\ \E r \in {SimWorld_initialize(sim, world)} :
        /\ sim' = r.self
        /\ world' = r.world
        /\ ret' = r.ret
    /\ call' = [op |-> "initialize"]
    /\ printed' = 0
    /\ stepped' = <<>>
    /\ UNCHANGED <<issued, removed, lastAdd, dvars, ticks, debug, clock, reports,
                   attempted, succeeded>>

SimPopulate ==
    /\ attempted = 0
    /\ entity_count(world) < 3 * MaxPopulates
    /\ \E r \in {SimWorld_populate_with_test_entities(sim, world)} :
        /\ sim' = r.self
        /\ world' = r.world
        /\ ret' = r.ret
    /\ call' = [op |-> "populate_with_test_entities"]
    /\ printed' = 0
    /\ stepped' = <<>>
    /\ UNCHANGED <<issued, removed, lastAdd, dvars, ticks, debug, clock, reports,
                   attempted, succeeded>>

\* sim_world.dispatcher.add_system(system, &mut sim_world.world)
SimAddSystem(system, initialized) ==
    /\ attempted = 0
    /\ Len(sim.dispatcher) < MaxSystems
    /\ \E r \in {SimWorld_add_system(sim, world, system, initialized)} :
        /\ sim' = r.self
        /\ world' = r.world
        /\ ret' = r.ret
    /\ call' = [op |-> "add_system"]
    /\ printed' = 0
    /\ stepped' = <<>>
    /\ UNCHANGED <<issued, removed, lastAdd, dvars, ticks, debug, clock, reports,
                   attempted, succeeded>>

SimStep(result) ==
    /\ attempted < MaxSimSteps
    /\ \E r \in {SimWorld_step(sim, world, result)} :
        /\ sim' = r.self
        /\ world' = r.world
        /\ ret' = r.ret
        /\ printed' = r.printed
        /\ stepped' = <<r.ret>>
        /\ succeeded' = succeeded + OkCount(<<r.ret>>)
    /\ attempted' = attempted + 1
    /\ call' = [op |-> "step"]
    /\ UNCHANGED <<issued, removed, lastAdd, dvars, ticks, debug, clock, reports>>

SimRunFor(duration, fails_at) ==
    /\ \E steps \in {SimWorld_run_for_steps(sim, duration)} :
        /\ attempted + steps <= MaxSimSteps
        /\ fails_at < steps
    /\ \E r \in {SimWorld_run_for(sim, world, duration, fails_at)} :
        /\ sim' = r.self
        /\ world' = r.world
        /\ ret' = r.ret
        /\ printed' = r.printed
        /\ stepped' = r.results
        /\ attempted' = attempted + Len(r.results)
        /\ succeeded' = succeeded + OkCount(r.results)
    /\ call' = [op |-> "run_for", duration |-> duration]
    /\ UNCHANGED <<issued, removed, lastAdd, dvars, ticks, debug, clock, reports>>

SimNext ==
    \/ SimInitialize
    \/ SimPopulate
    \/ \E system \in CallerSystems, initialized \in Results : SimAddSystem(system, initialized)
    \/ \E result \in StepResults : SimStep(result)
    \/ \E duration \in Durations, fails_at \in -1..MaxSimSteps : SimRunFor(duration, fails_at)

SimSpec == Init /\ [][SimNext]_vars

-----------------------------------------------------------------------------
(* Properties of the SimWorld.                                             *)

\* The DebugSystems the dispatcher of the SimWorld holds.
DebugSystemsHeld ==
    {sim.dispatcher[i] : i \in {j \in 1..Len(sim.dispatcher) :
                                    sim.dispatcher[j].name = "DebugSystem"}}

\* C34: DebugSystem::run always returns success and leaves the World as it
\* was, no entity, component or mask created, modified or removed; of the
\* DebugSystem itself only elapsed changes.  Checked in every reachable
\* SimWorld for every DebugSystem it holds, run with the time step (no
\* report unless the interval is reached) and with its own interval (a
\* report is written).
C34_DebugRunOnlyChangesElapsed ==
    \A d \in DebugSystemsHeld : \A delta_time \in {sim.time_step, d.print_interval} :
        \E r \in {DebugSystem_run(d, world, delta_time)} :
            /\ r.ret = Ok(Unit)
            /\ r.world = world
            /\ r.self = [d EXCEPT !.elapsed = r.self.elapsed]
            /\ r.printed = F32Ge(F32Add(d.elapsed, delta_time), d.print_interval)
            /\ r.printed => r.report = Some(DebugSystem_report(world))

\* A step in which a DebugSystem wrote its report on a World of three
\* entities, and returned Ok.
C34_Witness ==
    /\ call.op = "step"
    /\ ret = Ok(Unit)
    /\ printed >= 1
    /\ entity_count(world) = 3
    /\ \E d \in DebugSystemsHeld : d.elapsed = F32Whole(0)

\* Whether a step fails in which the run of the system of the caller's
\* returns result: the dispatcher holds such a system and result is an error
\* (MovementSystem::run and DebugSystem::run return Ok in these Worlds).
StepFails(result) ==
    /\ ~result.ok
    /\ \E i \in 1..Len(sim.dispatcher) : sim.dispatcher[i].name = "CallerSystem"

\* SimWorld::step adds time_step to total_time exactly when run_systems
\* succeeded; if a system fails, step returns that error and total_time is
\* as it was.
StepAddsOnSuccess ==
    \A result \in StepResults :
        \E r \in {SimWorld_step(sim, world, result)} :
            /\ r.ret = IF StepFails(result) THEN result ELSE Ok(Unit)
            /\ r.self.total_time = IF StepFails(result) THEN sim.total_time
                                   ELSE F32Add(sim.total_time, sim.time_step)
            /\ r.self.time_step = sim.time_step

\* run_for stops at the first failing step and returns its error: every
\* step it entered but the last returned Ok, a failed last step is what
\* run_for returns, and without a failure all the steps were entered.
RunForStopsAtFirstError ==
    call.op = "run_for" =>
        /\ \A i \in 1..(Len(stepped) - 1) : stepped[i].ok
        /\ ~ret.ok => /\ stepped # <<>>
                      /\ stepped[Len(stepped)] = ret
        /\ ret.ok => /\ \A i \in 1..Len(stepped) : stepped[i].ok
                     /\ Len(stepped) = SimWorld_run_for_steps(sim, call.duration)

RECURSIVE F32SumTimes(_, _)
\* x added n times to 0.0, each sum rounded to f32.
F32SumTimes(x, n) == IF n = 0 THEN F32Whole(0) ELSE F32Add(F32SumTimes(x, n - 1), x)

SystemNames(self) == [i \in 1..Len(self.dispatcher) |-> self.dispatcher[i].name]

\* The SimWorld is as SimWorld::new() followed by initialize() leaves it.
JustInitialized ==
    /\ call.op = "initialize"
    /\ sim = SimWorld_initialize(SimWorld_new, World_new).self
    /\ world = SimWorld_initialize(SimWorld_new, World_new).world

\* C36: initialize on a new SimWorld succeeds and leaves a dispatcher of
\* exactly two systems, MovementSystem first and DebugSystem second, and a
\* World of 0 entities; populate_with_test_entities called next succeeds
\* and leaves exactly 3 live entities, each with a Position and a Velocity.
C36_InitializeThenPopulate ==
    [][/\ (sim = SimWorld_new /\ world = World_new /\ call'.op = "initialize") =>
            /\ ret' = Ok(Unit)
            /\ SystemNames(sim') = <<"MovementSystem", "DebugSystem">>
            /\ entity_count(world') = 0
            /\ entities(world') = <<>>
       /\ (JustInitialized /\ call'.op = "populate_with_test_entities") =>
            /\ ret' = Ok(Unit)
            /\ entity_count(world') = 3
            /\ Cardinality(SeqToSet(entities(world'))) = 3
            /\ \A entity \in SeqToSet(entities(world')) :
                    /\ entity_exists(world', entity)
                    /\ has_component(world', "Position", entity)
                    /\ has_component(world', "Velocity", entity)
                    /\ get_component(world', "Position", entity).some
                    /\ get_component(world', "Velocity", entity).some
            /\ SystemNames(sim') = <<"MovementSystem", "DebugSystem">>]_vars

\* populate_with_test_entities has returned Ok on a SimWorld that was new
\* and initialized: two systems and three entities.
C36_Witness ==
    /\ call.op = "populate_with_test_entities"
    /\ ret = Ok(Unit)
    /\ sim = SimWorld_initialize(SimWorld_new, World_new).self
    /\ world = SimWorld_populate_with_test_entities(
                   sim, SimWorld_initialize(SimWorld_new, World_new).world).world
    /\ entity_count(world) = 3

----------------------------------------------------------------------------
(* Properties of the dispatcher.                                           *)

\* The invocation of the j-th registered system in the current tick.
Invocation(j) == [system |-> systems[j], dt |-> dcall.dt]

\* C9: once a system's run has returned an error the tick is over and
\* run_systems returns that very error; the systems before the failing
\* one, and the failing one, were each invoked once, in registration
\* order, and no system after it was invoked.
C9_FailFast ==
    /\ raised.some =>
          /\ dpc = "idle"
          /\ dcall.op = "run_systems" => dret = raised.val.result
    /\ (dpc = "idle" /\ dcall.op = "run_systems" /\ ~dret.ok) =>
          \E k \in 1..Len(systems) :
              /\ Len(runlog) = k
              /\ \A j \in 1..k : runlog[j] = Invocation(j)
              /\ raised = Some([system |-> systems[k], result |-> dret])

\* Of three systems the second has failed: the first two were run, the
\* third was not, and the second's error is what run_systems returned.
C9_Witness ==
    /\ dpc = "idle" /\ dcall.op = "run_systems"
    /\ Len(systems) = 3
    /\ Len(runlog) = 2
    /\ raised.some /\ raised.val.system = systems[2]
    /\ dret = Err(SystemError("e2"))

\* C10: within a tick the systems are invoked one after another in
\* registration order, each with the tick's dt; a tick in which none
\* fails invokes every registered system exactly once; and the order
\* changes only by a successful add_system appending to it.
C10_RunsAllInOrder ==
    /\ [](dcall.op = "run_systems" =>
            /\ Len(runlog) <= Len(systems)
            /\ \A j \in 1..Len(runlog) : runlog[j] = Invocation(j)
            /\ dpc = "running" => Len(runlog) = di - 1
            /\ (dpc = "idle" /\ dret = Ok(Unit)) => Len(runlog) = Len(systems))
    /\ [][systems' # systems =>
            /\ dcall'.op = "add_system"
            /\ dret' = Ok(Unit)
            /\ systems' = Append(systems, dcall'.system)]_vars

\* A tick over three systems, registered in an order that is not the
\* order of their names, has run them all and returned Ok.
C10_Witness ==
    /\ dpc = "idle" /\ dcall.op = "run_systems" /\ dret = Ok(Unit)
    /\ Len(systems) = 3 /\ Len(runlog) = 3
    /\ systems[1] > systems[2]
    /\ dcall.dt = 2

\* C11: add_system with a failing initialize returns that error and
\* leaves the sequence of systems (and so system_count) as it was; a
\* system whose add_system failed is not among the systems and its run
\* is not invoked in any tick.
C11_AddSystemTransactional ==
    /\ \A system \in SysIds, initialized \in Results :
          ~initialized.ok =>
            add_system(systems, system, initialized) =
                [systems |-> systems, ret |-> initialized]
    /\ \A system \in rejected :
          /\ system \notin SeqToSet(systems)
          /\ \A j \in 1..Len(runlog) : runlog[j].system # system

\* After an add_system that failed, a tick has run every registered
\* system.
C11_Witness ==
    /\ rejected # {}
    /\ dpc = "idle" /\ dcall.op = "run_systems" /\ dret = Ok(Unit)
    /\ Len(systems) >= 1 /\ Len(runlog) = Len(systems)

\* C12: add_system with a succeeding initialize returns Ok and appends
\* the system after the systems already there, which keep their order;
\* system_count is the number of add_system calls that returned Ok.
C12_AddSystemAppends ==
    /\ \A system \in SysIds, initialized \in Results :
          initialized.ok =>
            LET r == add_system(systems, system, initialized) IN
            /\ r = [systems |-> Append(systems, system), ret |-> Ok(Unit)]
            /\ system_count(r.systems) = system_count(systems) + 1
    /\ system_count(systems) = Cardinality(handed \ rejected)
    /\ (systems = <<>>) <=> (handed \subseteq rejected)

\* A second system has just been added successfully, after another
\* system's add_system had failed.
C12_Witness ==
    /\ dcall.op = "add_system" /\ dret = Ok(Unit)
    /\ system_count(systems) = 2
    /\ systems[2] = dcall.system
    /\ rejected # {}

\* C14: no World operation returns ComponentNotRegistered: add_component
\* on a live entity registers the type and returns Ok, and
\* remove_component<T>(e) on a live e whose T was never registered treats
\* the component as absent (no value, World unchanged).
C14_NeverComponentNotRegistered ==
    /\ ("ok" \in DOMAIN ret /\ ~ret.ok) => ret.err.kind # "ComponentNotRegistered"
    /\ \A e \in Handles, T \in Types :
          entity_exists(world, e) =>
            /\ \A component \in Values :
                  add_component(world, e, T, component).ret = Ok(Unit)
            /\ T \notin DOMAIN world.component_storages =>
                  remove_component(world, e, T) = [world |-> world, ret |-> Ok(None)]

\* C15: for a live e, remove_component<T>(e) returns the value most
\* recently added for (e, T) when there is one, and then has_component is
\* false and get_component returns nothing; when (e, T) is not present it
\* returns no value and leaves the World unchanged.
C15_RemoveComponentReturns ==
    \A e \in Handles, T \in Types :
        entity_exists(world, e) =>
            LET present == get_component(world, T, e)
                r == remove_component(world, e, T)
            IN
            /\ present.some =>
                  /\ r.ret = Ok(present)
                  /\ ~has_component(r.world, T, e)
                  /\ ~get_component(r.world, T, e).some
            /\ ~present.some => r = [world |-> world, ret |-> Ok(None)]
            /\ \A component \in Values :
                  remove_component(add_component(world, e, T, component).world, e, T).ret
                      = Ok(Some(component))

\* C16: register_component<T> is idempotent; on a registered T it leaves
\* the World as it is, T's store and its entries included; it never
\* changes the entities, a mask, another store, or the result of
\* has_component, get_component or query_entities.
C16_RegisterIdempotent ==
    \A T \in Types :
        LET w1 == register_component(world, T) IN
        /\ T \in DOMAIN w1.component_storages
        /\ register_component(w1, T) = w1
        /\ T \in DOMAIN world.component_storages => w1 = world
        /\ w1.entities = world.entities
        /\ w1.entity_component_masks = world.entity_component_masks
        /\ \A U \in DOMAIN world.component_storages :
              w1.component_storages[U] = world.component_storages[U]
        /\ \A e \in Handles, U \in Types :
              /\ has_component(w1, U, e) = has_component(world, U, e)
              /\ get_component(w1, U, e) = get_component(world, U, e)
        /\ \A component_types \in Slices :
              query_entities(w1, component_types) = query_entities(world, component_types)

\* register_component has just been called on a type whose store holds
\* entries (every store does).
C16_Witness ==
    /\ call.op = "register_component"
    /\ \A T \in Types :
          /\ T \in DOMAIN world.component_storages
          /\ world.component_storages[T].components # EmptyMap

\* C17: get_component, get_component_mut and has_component always return
\* an optional value or a boolean, never an error: nothing / false when T
\* is not registered, when e is not live, and when e is live without T.
C17_ReadAccessorsTotal ==
    \A e \in Handles, T \in Types :
        LET got == get_component(world, T, e)
            got_mut == get_component_mut(world, T, e)
            has == has_component(world, T, e)
            nothing == got = None /\ got_mut = None /\ has = FALSE
        IN
        /\ got \in {None} \cup {Some(v) : v \in Values}
        /\ got_mut = got
        /\ has \in BOOLEAN
        /\ T \notin DOMAIN world.component_storages => nothing
        /\ ~entity_exists(world, e) => nothing
        /\ (entity_exists(world, e) /\ ~StoreHolds(world, T, e)) => nothing

\* All three cases at once: a type that is not registered, a removed
\* entity that had components, and a live entity without a registered type.
C17_Witness ==
    /\ \E T \in Types : T \notin DOMAIN world.component_storages
    /\ call.op = "remove_entity" /\ ret.ok /\ call.had # {}
    /\ \E e \in Live, T \in DOMAIN world.component_storages :
          ~StoreHolds(world, T, e)

\* w2 has every store of w, with the element type it has in w.
StoresKept(w, w2) ==
    \A T \in DOMAIN w.component_storages :
        /\ T \in DOMAIN w2.component_storages
        /\ w2.component_storages[T].elem = w.component_storages[T].elem

\* Every world one World operation away from w keeps the stores of w.
WorldSuccessorsKeepStores(w) ==
    /\ StoresKept(w, create_entity(w).world)
    /\ \A T \in Types : StoresKept(w, register_component(w, T))
    /\ \A e \in Handles :
          /\ StoresKept(w, remove_entity(w, e).world)
          /\ \A T \in Types :
                /\ StoresKept(w, remove_component(w, e, T).world)
                /\ \A component \in Values :
                      /\ StoresKept(w, add_component(w, e, T, component).world)
                      /\ StoresKept(w, get_component_mut_write(w, T, e, component))

\* C19: every registered tag has one typed store, whose element type is
\* the tag's type, so the downcast at a registered tag succeeds; no
\* operation removes a store or changes its element type; add_component
\* on a live entity never takes the failed-downcast path.
C19_OneStorePerTag ==
    /\ \A T \in DOMAIN world.component_storages :
          /\ T \in Types
          /\ Downcast(world.component_storages[T], T) = Some(world.component_storages[T])
    /\ WorldSuccessorsKeepStores(world)
    /\ \A e \in Live, T \in Types, component \in Values :
          LET r == add_component(world, e, T, component) IN
          /\ r.ret = Ok(Unit)
          /\ get_component(r.world, T, e) = Some(component)

\* Every type is registered and an entity holds a component of each,
\* the last of them just added.
C19_Witness ==
    /\ DOMAIN world.component_storages = Types
    /\ call.op = "add_component" /\ ret = Ok(Unit)
    /\ ComponentSet(world, call.entity) = Types

\* C18: the mask is never out of step with the typed stores, whatever
\* public operation touched a store, insert and remove on the handle of
\* get_component_storage_mut included: for every live e and every T the
\* mask holds T exactly when T's store holds an entry for e, has_component
\* agrees with get_component.
C18_MaskFollowsStore ==
    \A e \in Handles, T \in Types :
        entity_exists(world, e) =>
            /\ StoreHolds(world, T, e) <=> MaskHolds(world, T, e)
            /\ get_component(world, T, e).some <=> has_component(world, T, e)

\* C20: within a tick the first run is handed the World as it was at
\* the entry of run_systems, and every later run the World exactly as
\* the run before it left it; the World after the tick is the one the
\* last run left.
C20_RunSeesPreviousRun ==
    dcall.op = "run_systems" =>
        /\ Len(saws) = Len(runlog)
        /\ Len(trail) = Len(saws) + 1
        /\ \A j \in 1..Len(saws) : saws[j] = trail[j]
        /\ world = trail[Len(trail)]

\* Two systems in a row have each changed the World in one tick.
C20_Witness ==
    /\ dcall.op = "run_systems"
    /\ Len(saws) >= 2
    /\ trail[2] # trail[1]
    /\ trail[3] # trail[2]
    /\ entity_count(saws[2]) = entity_count(trail[1]) + 1

\* C21: when run_systems has returned the error of system k, the World
\* is what the runs of systems 1..k-1 followed by the failing run of
\* system k made of the World of the tick's entry: each run's changes are
\* there, the failing run's included, and no entity the tick created is
\* gone.
C21_NoRollback ==
    (dcall.op = "run_systems" /\ dpc = "idle" /\ raised.some) =>
        LET k == Len(runlog) IN
        /\ ~dret.ok
        /\ runlog[k].system = raised.val.system
        /\ Len(trail) = k + 1
        /\ \A j \in 1..k : \E effect \in Effects :
              trail[j + 1] = System_run(trail[j], effect)
        /\ world = trail[k + 1]
        /\ entity_count(world) >= entity_count(trail[1])

\* A tick has failed in its second system, after both the first and the
\* failing run had changed the World.
C21_Witness ==
    /\ dcall.op = "run_systems" /\ dpc = "idle" /\ raised.some
    /\ Len(runlog) = 2
    /\ trail[2] # trail[1]
    /\ trail[3] # trail[2]
    /\ world = trail[3]

\* C27: initialize is invoked exactly once on every system handed to
\* add_system, inside that add_system, and on no other system; every
\* registered system and every system whose run was invoked had its
\* initialize return Ok before.
C27_InitializeOnceBeforeRun ==
    /\ \A system \in SysIds :
          Len(inits[system]) = IF system \in handed THEN 1 ELSE 0
    /\ dcall.op = "add_system" => Len(inits[dcall.system]) = 1
    /\ \A j \in 1..Len(systems) : inits[systems[j]] = <<TRUE>>
    /\ \A j \in 1..Len(runlog) : inits[runlog[j].system] = <<TRUE>>

\* A tick has run two systems while a system whose initialize failed
\* and a system never handed over exist.
C27_Witness ==
    /\ dcall.op = "run_systems" /\ Len(runlog) = 2
    /\ \E system \in SysIds : inits[system] = <<FALSE>>
    /\ \A j \in 1..2 : inits[runlog[j].system] = <<TRUE>>

\* C28: after run_systems has returned an error the systems are the
\* ones of the tick's entry, in the same order, the failing one among
\* them, and its run was invoked once (no retry); the tick after a failed
\* one starts at the first registered system and takes them in order.
C28_FailedTickKeepsDispatcher ==
    /\ dcall.op = "run_systems" => systems = entry
    /\ (dcall.op = "run_systems" /\ dpc = "idle" /\ raised.some) =>
          /\ system_count(systems) = system_count(entry)
          /\ \E j \in 1..Len(systems) : systems[j] = raised.val.system
          /\ Cardinality({j \in 1..Len(runlog) :
                            runlog[j].system = raised.val.system}) = 1
    /\ (dcall.op = "run_systems" /\ prevFailed) =>
          /\ Len(runlog) <= Len(systems)
          /\ \A j \in 1..Len(runlog) : runlog[j].system = systems[j]
          /\ dpc = "running" => di = Len(runlog) + 1

\* The tick after a failed tick has run the first two systems.
C28_Witness ==
    /\ dcall.op = "run_systems" /\ prevFailed
    /\ Len(runlog) = 2
    /\ runlog[1].system = systems[1]

\* C22: entity_count() is the number of handles that exist, which is the
\* number of create_entity calls (each returns a handle never returned
\* before) less the number of remove_entity calls that returned Ok;
\* entities() yields every live entity once and no removed one; a new
\* World counts 0 and, after one create_entity, 1 with the entity existing.
C22_EntityCount ==
    /\ entity_count(world) = Cardinality(Live)
    /\ create_entity(world).ret \notin issued
    /\ entity_count(world) = Cardinality(issued) - Cardinality(removed)
    /\ LET es == entities(world) IN
          /\ Len(es) = entity_count(world)
          /\ SeqToSet(es) = Live
          /\ \A e \in removed : ~Contains(es, e)
    /\ entity_count(World_new) = 0
    /\ LET r == create_entity(World_new) IN
          entity_count(r.world) = 1 /\ entity_exists(r.world, r.ret)

\* An entity has been removed and another created since.
C22_Witness ==
    /\ call.op = "create_entity"
    /\ removed # {}
    /\ entity_count(world) >= 1
    /\ Cardinality(issued) > entity_count(world)

\* Everything but the (entity, T) value and tag T in the entity's mask is
\* in w2 as it is in w.
FrameOf(w, w2, entity, T) ==
    /\ w2.entities = w.entities
    /\ DOMAIN w2.entity_component_masks = DOMAIN w.entity_component_masks
    /\ \A id \in DOMAIN w.entity_component_masks :
          IF id = Entity_id(entity)
          THEN SelectSeq(w2.entity_component_masks[id], LAMBDA t : t # T)
                = SelectSeq(w.entity_component_masks[id], LAMBDA t : t # T)
          ELSE w2.entity_component_masks[id] = w.entity_component_masks[id]
    /\ DOMAIN w2.component_storages \subseteq (DOMAIN w.component_storages) \cup {T}
    /\ \A U \in DOMAIN w.component_storages :
          /\ U \in DOMAIN w2.component_storages
          /\ U # T => w2.component_storages[U] = w.component_storages[U]
    /\ T \in DOMAIN w2.component_storages =>
          MapRemove(w2.component_storages[T].components, Entity_id(entity))
            = IF T \in DOMAIN w.component_storages
              THEN MapRemove(w.component_storages[T].components, Entity_id(entity))
              ELSE EmptyMap

\* C29: a successful add_component<T>(e, v) or remove_component<T>(e),
\* and a write through get_component_mut<T>(e), change only the (e, T)
\* value and, for add and remove, tag T in e's mask: the entities, every
\* other entity's components and mask and e's components of the other
\* types stay; the write changes no mask at all.
C29_ComponentOpsFrame ==
    \A e \in Handles, T \in Types :
        /\ \A component \in Values :
              LET r == add_component(world, e, T, component) IN
              r.ret.ok =>
                /\ FrameOf(world, r.world, e, T)
                /\ get_component(r.world, T, e) = Some(component)
        /\ LET r == remove_component(world, e, T) IN
              r.ret.ok =>
                /\ FrameOf(world, r.world, e, T)
                /\ get_component(r.world, T, e) = None
        /\ \A component \in Values :
              LET w2 == get_component_mut_write(world, T, e, component) IN
              IF get_component_mut(world, T, e).some
              THEN /\ FrameOf(world, w2, e, T)
                   /\ w2.entity_component_masks = world.entity_component_masks
                   /\ get_component(w2, T, e) = Some(component)
              ELSE w2 = world

\* A value has just been written through get_component_mut, with two
\* live entities that have every type.
C29_Witness ==
    /\ call.op = "get_component_mut" /\ ret.some
    /\ Cardinality(Live) = 2
    /\ \A e \in Live : ComponentSet(world, e) = Types
    /\ \E e \in Live, T \in Types : get_component(world, T, e) # ret

\* C30: create_entity returns a handle that exists afterwards, was not
\* live before, and has no component of any type, also when its slot was
\* used before; the entities that were live stay live with their
\* components and masks, and the stores are as before.
C30_CreateEntityFresh ==
    LET r == create_entity(world) IN
    /\ entity_exists(r.world, r.ret)
    /\ ~entity_exists(world, r.ret)
    /\ entity_count(r.world) = entity_count(world) + 1
    /\ r.world.entity_component_masks[Entity_id(r.ret)] = <<>>
    /\ \A T \in Types :
          /\ ~has_component(r.world, T, r.ret)
          /\ get_component(r.world, T, r.ret) = None
    /\ r.world.component_storages = world.component_storages
    /\ \A e \in Live :
          /\ entity_exists(r.world, e)
          /\ Entity_id(e) \in DOMAIN r.world.entity_component_masks
          /\ r.world.entity_component_masks[Entity_id(e)]
                = world.entity_component_masks[Entity_id(e)]
          /\ \A T \in Types :
                /\ get_component(r.world, T, e) = get_component(world, T, e)
                /\ has_component(r.world, T, e) = has_component(world, T, e)

\* create_entity has just returned a handle on a slot used before, with
\* every type registered.
C30_Witness ==
    /\ call.op = "create_entity"
    /\ ret.id.version > 1
    /\ \E e \in removed : e.id.idx = ret.id.idx
    /\ DOMAIN world.component_storages = Types
    /\ ComponentSet(world, ret) = {}

-----------------------------------------------------------------------------
(* Properties of the MovementSystem.                                       *)

\* The entity has a component of each of the two types, by the typed stores.
Moving(w, entity) ==
    get_component(w, "Position", entity).some /\ get_component(w, "Velocity", entity).some

\* C23: one run of MovementSystem with time step dt returns Ok and sets the
\* Position of every live entity that has both a Velocity and a Position to
\* position + velocity * dt (in f32, one update per entity); the Velocity
\* values, every other store, the live entities and all masks are unchanged.
C23_MovementRunIntegrates ==
    \A dt \in TimeSteps :
        LET r == MovementSystem_run(world, dt) IN
        /\ r.ret = Ok(Unit)
        /\ r.world.entities = world.entities
        /\ r.world.entity_component_masks = world.entity_component_masks
        /\ DOMAIN r.world.component_storages = DOMAIN world.component_storages
        /\ \A T \in DOMAIN world.component_storages :
                /\ T \in DOMAIN r.world.component_storages
                /\ T # "Position" =>
                        r.world.component_storages[T] = world.component_storages[T]
        /\ \A e \in Handles :
                get_component(r.world, "Position", e) =
                    IF Moving(world, e)
                    THEN LET p == get_component(world, "Position", e).val
                             v == get_component(world, "Velocity", e).val
                         IN Some([x |-> F32Add(p.x, F32Mul(v.x, dt)),
                                  y |-> F32Add(p.y, F32Mul(v.y, dt))])
                    ELSE get_component(world, "Position", e)

\* C23 witness: a run has just moved one entity that has both components
\* and passed over another that has a Position only.
C23_Witness ==
    /\ call.op = "MovementSystem::run"
    /\ ret = Ok(Unit)
    /\ Len(ticks) = 1
    /\ \E e1, e2 \in Live :
        /\ Moving(world, e1)
        /\ get_component(world, "Position", e1).val \notin Positions
        /\ ComponentSet(world, e2) = {"Position"}

\* The position after one tick, and after two ticks one after the other.
AfterTick(w, entity, dt) ==
    get_component(MovementSystem_run(w, dt).world, "Position", entity)
AfterTicks(w, entity, dt1, dt2) ==
    AfterTick(MovementSystem_run(w, dt1).world, entity, dt2)

\* a + b and a * b are f32 values as they are: nothing is rounded.
ExactSum(a, b) ==
    \/ a.m = 0
    \/ b.m = 0
    \/ LET wide == F32AddWide(a, b) IN ~wide.inexact /\ F32Round(wide.n) = wide.n
ExactProduct(a, b) ==
    \/ a.m = 0
    \/ b.m = 0
    \/ LET wide == F32MulWide(a, b) IN ~wide.inexact /\ F32Round(wide.n) = wide.n

\* No rounding happens when the entity's position is advanced by dt.
ExactTick(w, entity, dt) ==
    LET p == get_component(w, "Position", entity).val
        v == get_component(w, "Velocity", entity).val
    IN /\ ExactProduct(v.x, dt) /\ ExactSum(p.x, F32Mul(v.x, dt))
       /\ ExactProduct(v.y, dt) /\ ExactSum(p.y, F32Mul(v.y, dt))

\* The example: Position (0, 0) and Velocity (10, 5) end at (10, 5) after
\* one tick of 1.0 and after two ticks of 0.5.
StepsAddUpInExample ==
    \A e \in Live :
        /\ get_component(world, "Position", e) = Some(Position_new(F32Whole(0), F32Whole(0)))
        /\ get_component(world, "Velocity", e) = Some(Velocity_new(F32Whole(10), F32Whole(5)))
        => /\ AfterTick(world, e, F32Whole(1)) =
                    Some(Position_new(F32Whole(10), F32Whole(5)))
           /\ AfterTicks(world, e, F32Halves(1), F32Halves(1)) =
                    Some(Position_new(F32Whole(10), F32Whole(5)))

C25_PartialEntitiesKept ==
    \A dt \in TimeSteps :
        LET r == MovementSystem_run(world, dt) IN
        /\ r.ret = Ok(Unit)
        /\ \A e \in Live :
                Cardinality(ComponentSet(world, e)) = 1 =>
                    \A T \in Types :
                        get_component(r.world, T, e) = get_component(world, T, e)

\* C25 witness: after the last of several runs an entity with a Position
\* only still has a value it was given, beside one with a Velocity only.
C25_Witness ==
    /\ call.op = "MovementSystem::run"
    /\ Len(ticks) >= 2
    /\ \E e1, e2 \in Live :
        /\ ComponentSet(world, e1) = {"Position"}
        /\ get_component(world, "Position", e1).val \in Positions
        /\ ComponentSet(world, e2) = {"Velocity"}

\* C32 as claimed: in every World the public operations lead to, the
\* storage handle of get_component_storage_mut among them, an entity of
\* the snapshot for which has_component holds for both types has a value
\* for both, and MovementSystem::run returns Ok.
C32_MovementNeverAborts ==
    /\ \A e \in SeqToSet(entities(world)) :
          MovementSystem_moves(world, e) =>
              /\ get_component(world, "Velocity", e).some
              /\ get_component_mut(world, "Position", e).some
    /\ \A dt \in TimeSteps : MovementSystem_run(world, dt).ret = Ok(Unit)

-----------------------------------------------------------------------------
(* Properties of the DebugSystem.                                          *)

\* C26 as claimed: in the run where the accumulated time reaches the print
\* interval, the accumulator is left at the time by which the interval was
\* exceeded, and so the k-th report falls in the first run that brings the
\* simulated time to k intervals.
C26_OvershootCarried ==
    debug.some =>
        /\ \A dt \in DebugSteps :
                LET r == DebugSystem_run(debug.val, world, F32Halves(dt)) IN
                r.printed =>
                    r.self.elapsed = F32Sub(F32Add(debug.val.elapsed, F32Halves(dt)),
                                            debug.val.print_interval)
        /\ \A k \in 1..Len(reports) :
                F32Ge(F32Halves(reports[k]),
                      F32Mul(F32Whole(k), debug.val.print_interval))

-----------------------------------------------------------------------------
(* Properties of the registry and the masks.                               *)

\* The ids with a mask entry, and the ids of the live entities.
MaskIds(w) == DOMAIN w.entity_component_masks
LiveIds(w) == {Entity_id(e) : e \in SeqToSet(entities(w))}

\* C31: the entities with a mask entry are the live entities, always:
\* create_entity adds the new id to both, remove_entity takes the id out
\* of both, no other operation changes either whatever handle it is called
\* with, and add_component on a live entity returns Ok with the value
\* stored and its tag in the mask.
C31_MaskEntriesAreLive ==
    /\ MaskIds(world) = LiveIds(world)
    /\ LET r == create_entity(world) IN
          /\ Entity_id(r.ret) \notin LiveIds(world)
          /\ LiveIds(r.world) = LiveIds(world) \cup {Entity_id(r.ret)}
          /\ MaskIds(r.world) = MaskIds(world) \cup {Entity_id(r.ret)}
    /\ \A e \in Handles :
          LET r == remove_entity(world, e) IN
          /\ LiveIds(r.world) = LiveIds(world) \ {Entity_id(e)}
          /\ MaskIds(r.world) = MaskIds(world) \ {Entity_id(e)}
    /\ \A T \in Types :
          LET w2 == register_component(world, T) IN
          LiveIds(w2) = LiveIds(world) /\ MaskIds(w2) = MaskIds(world)
    /\ \A e \in Handles, T \in Types :
          /\ LET r == remove_component(world, e, T) IN
                LiveIds(r.world) = LiveIds(world) /\ MaskIds(r.world) = MaskIds(world)
          /\ \A component \in Values :
                /\ LET r == add_component(world, e, T, component) IN
                      /\ LiveIds(r.world) = LiveIds(world)
                      /\ MaskIds(r.world) = MaskIds(world)
                      /\ entity_exists(world, e) =>
                            /\ r.ret = Ok(Unit)
                            /\ StoreHolds(r.world, T, e)
                            /\ MaskHolds(r.world, T, e)
                /\ LET w2 == get_component_mut_write(world, T, e, component) IN
                      LiveIds(w2) = LiveIds(world) /\ MaskIds(w2) = MaskIds(world)

\* C31 witness: an entity has been removed, another lives on, and a
\* component has just been added to a live entity.
C31_Witness ==
    /\ call.op = "add_component" /\ ret = Ok(Unit)
    /\ removed # {}
    /\ \E e \in Live : ComponentSet(world, e) # {} /\ e \notin removed
    /\ Cardinality(MaskIds(world)) = 1

\* A sequence without a repeated element.
NoRepeat(s) == \A i, j \in 1..Len(s) : s[i] = s[j] => i = j

\* C33: query_entities returns no entity that does not exist and no
\* entity twice; asked with no type it returns the live entities, those
\* without components included; asked with one type T it returns e exactly
\* when has_component<T>(e).
C33_QueryReturnsLiveOnce ==
    /\ \A R \in Slices :
          LET found == query_entities(world, R) IN
          /\ \A i \in 1..Len(found) : entity_exists(world, found[i])
          /\ NoRepeat(found)
    /\ SeqToSet(query_entities(world, <<>>)) = Live
    /\ \A T \in Types, e \in Handles :
          Contains(query_entities(world, <<T>>), e) <=> has_component(world, T, e)

\* C33 witness: of two live entities one has no component and the other
\* has one; a query for that type returns the second alone.
C33_Witness ==
    /\ \E e1, e2 \in Live :
          /\ ComponentSet(world, e1) = {}
          /\ Cardinality(ComponentSet(world, e2)) = 1
          /\ Len(query_entities(world, <<>>)) = 2
          /\ \E T \in Types : query_entities(world, <<T>>) = <<e2>>

\* C37: a mask holds every tag at most once: adding a type the entity
\* already has leaves the mask as it is, and after one remove_component
\* the tag is not in the mask.
C37_MaskHasNoDuplicates ==
    /\ \A id \in MaskIds(world) : NoRepeat(world.entity_component_masks[id])
    /\ \A e \in Live, T \in Types :
          /\ has_component(world, T, e) =>
                \A component \in Values :
                    add_component(world, e, T, component).world.entity_component_masks
                        = world.entity_component_masks
          /\ LET r == remove_component(world, e, T) IN
                /\ ~has_component(r.world, T, e)
                /\ ~Contains(r.world.entity_component_masks[Entity_id(e)], T)

\* C37 witness: a type has just been added again to an entity that has
\* both types, with another value.
C37_Witness ==
    /\ call.op = "add_component" /\ ret = Ok(Unit)
    /\ \E e \in Live :
          /\ Len(world.entity_component_masks[Entity_id(e)]) = 2
          /\ ComponentSet(world, e) = Types
          /\ \E T \in Types : get_component(world, T, e) = Some("v2")

\* C13: the dispatcher offers an operation that removes a system: with
\* the dispatcher idle and a system registered, some step of the
\* dispatcher leaves the systems without one of them (remove_system,
\* which is to invoke cleanup before the system is excluded).
C13_RemoveSystemOffered ==
    (dpc = "idle" /\ system_count(systems) > 0) =>
        ENABLED (DispNext /\ \E j \in 1..Len(systems) :
                    systems' = SubSeq(systems, 1, j - 1)
                                \o SubSeq(systems, j + 1, Len(systems)))

====
